---------------------------- MODULE Spec2Model ----------------------------
(***************************************************************************)
(* Outbound message relay core of DigiSocket (src/Socket/messages-send.ts),*)
(* with the parts of the groups socket (src/unnamed/part_000) and of the   *)
(* LID mapping store (src/Signal/lid-mapping.ts) that relayMessage uses.   *)
(*                                                                         *)
(* A relayMessage call is a process: its position (pc) moves through the   *)
(* awaits of the function, and calls of different processes interleave at  *)
(* those awaits.  The keystore, the keyed mutex, the Signal repository and *)
(* the JID codec are collaborators whose code is outside src/; they are    *)
(* modelled from the specification and marked so in the model map.         *)
(***************************************************************************)
EXTENDS Integers, Sequences, FiniteSets, TLC

(* Number of relayMessage calls that may be in flight together. *)
MaxRelays == 2

Relays == 1..MaxRelays

-----------------------------------------------------------------------------
(* JIDs.  A JID "user@server" or "user:device@server" is the record of its *)
(* parts; device 0 is the primary device and is the one a JID without a    *)
(* device suffix denotes.                                                  *)

S_WHATSAPP_NET == "s.whatsapp.net"

LidServer == "lid"

GroupServer == "g.us"

BroadcastServer == "broadcast"

NewsletterServer == "newsletter"

jidEncode(user, server, device) ==
    [user |-> user, server |-> server, device |-> device]

jidNormalizedUser(jid) == jidEncode(jid.user, jid.server, 0)

isPnUser(jid) == jid.server = S_WHATSAPP_NET

isLidUser(jid) == jid.server = LidServer

isJidGroup(jid) == jid.server = GroupServer

areJidsSameUser(j1, j2) == j1.user = j2.user

(* A Signal protocol address: user, identity space and device of a JID. *)
jidToSignalProtocolAddress(jid) == <<jid.user, jid.server, jid.device>>

-----------------------------------------------------------------------------
(* The account and its surroundings.                                        *)

(* creds.me.id and creds.me.lid: this client is companion device 1. *)
meId == jidEncode("me", S_WHATSAPP_NET, 1)

meLid == jidEncode("meL", LidServer, 1)

statusJid == jidEncode("status", BroadcastServer, 0)

groupJid == jidEncode("g", GroupServer, 0)

newsletterJid == jidEncode("n", NewsletterServer, 0)

peerPn == jidEncode("a", S_WHATSAPP_NET, 0)

peerLid == jidEncode("aL", LidServer, 0)

(* A phone-number contact for which no LID is known. *)
unmappedPn == jidEncode("b", S_WHATSAPP_NET, 0)

(* The device lists the server advertises, by user. *)
ServerDevices(user) ==
    CASE user = "me" -> {0, 1}
      [] user = "meL" -> {0, 1}
      [] user = "a" -> {0, 1}
      [] user = "aL" -> {0, 1}
      [] user = "b" -> {0}
      [] OTHER -> {}

(* The LID the server reports in a USync answer for a phone-number user. *)
ServerLid(user) ==
    CASE user = "a" -> <<"aL">>
      [] user = "me" -> <<"meL">>
      [] OTHER -> <<>>

(* Group metadata as the server holds it: a LID-addressed group with one   *)
(* other member, known under both identities, and disappearing messages    *)
(* of one day.                                                             *)
ServerGroupMetadata ==
    [addressingMode |-> "lid",
     participants |-> << [id |-> peerPn, lid |-> <<peerLid>>] >>,
     ephemeralDuration |-> 86400]

(* Sessions the keystore holds from earlier conversations, each with the   *)
(* type encryption on it yields: the peer has answered on these, so msg; a *)
(* session just built from a pre-key bundle yields pkmsg.                  *)
EstablishedSessions ==
    [a \in { jidToSignalProtocolAddress(j) :
               j \in {jidEncode("me", S_WHATSAPP_NET, 0), peerPn, peerLid} } |-> "msg"]

(* The keystore at start: with those sessions, or before any exchange with *)
(* the own primary device.                                                 *)
InitialSessions ==
    { EstablishedSessions,
      [a \in DOMAIN EstablishedSessions
                \ {jidToSignalProtocolAddress(jidEncode("me", S_WHATSAPP_NET, 0))} |-> "msg"] }

-----------------------------------------------------------------------------
(* Sequences and attribute maps.                                            *)

Range(s) == { s[i] : i \in DOMAIN s }

RECURSIVE SeqOfSet(_)
SeqOfSet(S) ==
    IF S = {} THEN <<>>
    ELSE LET x == CHOOSE y \in S : TRUE IN <<x>> \o SeqOfSet(S \ {x})

RECURSIVE Flatten(_)
Flatten(ss) == IF ss = <<>> THEN <<>> ELSE Head(ss) \o Flatten(Tail(ss))

EmptyAttrs == [k \in {} |-> ""]

(* { ...a, ...b } *)
Spread(a, b) ==
    [k \in (DOMAIN a) \cup (DOMAIN b) |-> IF k \in DOMAIN b THEN b[k] ELSE a[k]]

(* A map with key k set to v. *)
Put(f, k, v) == [x \in (DOMAIN f) \cup {k} |-> IF x = k THEN v ELSE f[x]]

(* Map g laid over map f. *)
Overlay(f, g) ==
    [x \in (DOMAIN f) \cup (DOMAIN g) |-> IF x \in DOMAIN g THEN g[x] ELSE f[x]]

RECURSIVE SortedSeq(_)
SortedSeq(S) ==
    IF S = {} THEN <<>>
    ELSE LET m == CHOOSE x \in S : \A y \in S : x <= y
         IN <<m>> \o SortedSeq(S \ {m})

RECURSIVE SelectSeqIn(_, _)
SelectSeqIn(s, S) ==
    IF s = <<>> THEN <<>>
    ELSE (IF Head(s) \in S THEN <<Head(s)>> ELSE <<>>) \o SelectSeqIn(Tail(s), S)

(* [...new Set(s)]: first occurrences, in order. *)
RECURSIVE Dedupe(_)
Dedupe(s) ==
    IF s = <<>> THEN <<>>
    ELSE LET init == Dedupe(SubSeq(s, 1, Len(s) - 1))
             last == s[Len(s)]
         IN IF last \in Range(init) THEN init ELSE Append(init, last)

Node(tag, attrs, content) == [tag |-> tag, attrs |-> attrs, content |-> content]

-----------------------------------------------------------------------------
(* State.                                                                   *)

VARIABLES
    media,               \* mediaConn, the promises it has held, the refreshMediaConn calls
    compatV6GroupSend,   \* config.compatV6GroupSend
    keys,                \* the keystore's committed content, by namespace
    userDevicesCache,    \* user -> cached device list
    peerSessionsCache,   \* Signal address -> session known to exist
    mappingCache,        \* LIDMappingStore.mappingCache
    groupMetadataCache,  \* the groups socket's in-memory metadata cache
    encryptionMutex,     \* wire JIDs whose keyed mutex is held
    relay,               \* the relayMessage calls, one record per call
    skdmSent             \* history: per group, the wire JIDs an SKDM was sent to

vars == <<media, compatV6GroupSend, keys, userDevicesCache, peerSessionsCache,
          mappingCache, groupMetadataCache, encryptionMutex, relay, skdmSent>>

NoParticipant == <<>>

(* Callers of refreshMediaConn. *)
MaxCallers == 3

Callers == 1..MaxCallers

(* A caller that has not called. *)
IdleCaller ==
    [pc |-> "idle", forceGet |-> FALSE, awaited |-> <<>>, saw |-> "", issued |-> <<>>,
     returns |-> <<>>]

(* mediaConn before any call (line 171: declared, not assigned): conn is   *)
(* the promise the variable holds, promise the state of every promise it   *)
(* has held, in order of creation.                                         *)
NoMedia == [conn |-> <<>>, promise |-> <<>>, call |-> [c \in Callers |-> IdleCaller]]

(* The transaction's pending writes, by namespace (nothing written yet). *)
EmptyTx ==
    [session |-> <<>>,
     senderKeyMemory |-> <<>>,
     lidMapping |-> <<>>,
     deviceList |-> {}]

IdleRelay ==
    [pc |-> "idle",
     jid |-> meId,
     participant |-> NoParticipant,
     additionalAttributes |-> EmptyAttrs,
     additionalNodes |-> <<>>,
     statusJidList |-> <<>>,
     groupData |-> <<>>,
     consulted |-> {},
     groupDataAge |-> "",
     senderKeyMap |-> {},
     readSenderKeyMap |-> {},
     devices |-> <<>>,
     recipients |-> <<>>,
     dsm |-> {},
     plaintext |-> <<>>,
     recentMessage |-> <<>>,
     meLid |-> <<>>,
     usync |-> <<>>,
     stored |-> <<>>,
     progressive |-> <<>>,
     assertCalls |-> <<>>,
     enc |-> <<>>,
     retryEnc |-> "",
     assertFailed |-> FALSE,
     shouldIncludeDeviceIdentity |-> FALSE,
     stanza |-> <<>>,
     sendNodeCalls |-> 0,
     tx |-> EmptyTx]

SenderKeyGroups == {groupJid, statusJid}

Init ==
    /\ media = NoMedia
    /\ compatV6GroupSend \in BOOLEAN
    /\ keys \in { [session |-> s,
                    senderKeyMemory |-> [g \in SenderKeyGroups |-> {}],
                    lidMapping |-> <<>>,
                    deviceList |-> {}] : s \in InitialSessions }
    /\ userDevicesCache = <<>>
    /\ peerSessionsCache = <<>>
    /\ mappingCache = <<>>
    /\ groupMetadataCache = <<>>
    /\ encryptionMutex = {}
    /\ relay = [r \in Relays |-> IdleRelay]
    /\ skdmSent = [g \in SenderKeyGroups |-> {}]

-----------------------------------------------------------------------------
(* LIDMappingStore (src/Signal/lid-mapping.ts).  cache is mappingCache, kv *)
(* the lid-mapping namespace as the caller's transaction sees it.          *)

PnCacheKey(pnUser) == <<"pn", pnUser>>

LidCacheKey(lidUser) == <<"lid", lidUser>>

PnStoreKey(pnUser) == <<pnUser, "">>

ReverseStoreKey(lidUser) == <<lidUser, "_reverse">>

(* The test of line 27: one of the two is a LID user, the other a PN user. *)
validPair_Any(p) == TRUE

validPair(p) ==
    \/ (isLidUser(p.lid) /\ isPnUser(p.pn))
    \/ (isPnUser(p.lid) /\ isLidUser(p.pn))

(* The validation loop of storeLIDPNMappings: the pairs still to store, in  *)
(* the order of their first appearance, and the cache after the lookups.   *)
RECURSIVE validatePairs(_, _, _, _)
validatePairs(pairs, cache, kv, pairMap) ==
    IF pairs = <<>> THEN [cache |-> cache, pairMap |-> pairMap]
    ELSE
      LET p == Head(pairs)
          valid == validPair(p)
          lidUser == IF isLidUser(p.lid) THEN p.lid.user ELSE p.pn.user
          pnUser == IF isLidUser(p.lid) THEN p.pn.user ELSE p.lid.user
          hit == PnCacheKey(pnUser) \in DOMAIN cache
          stored == PnStoreKey(pnUser) \in DOMAIN kv
          existing == IF hit THEN <<cache[PnCacheKey(pnUser)]>>
                      ELSE IF stored THEN <<kv[PnStoreKey(pnUser)]>>
                      ELSE <<>>
          cache1 == IF ~hit /\ stored
                    THEN Put(Put(cache, PnCacheKey(pnUser), kv[PnStoreKey(pnUser)]),
                             LidCacheKey(kv[PnStoreKey(pnUser)]), pnUser)
                    ELSE cache
          idx == { i \in DOMAIN pairMap : pairMap[i][1] = pnUser }
          pairMap1 == IF idx = {} THEN Append(pairMap, <<pnUser, lidUser>>)
                      ELSE [i \in DOMAIN pairMap |->
                              IF i \in idx THEN <<pnUser, lidUser>> ELSE pairMap[i]]
      IN IF ~valid THEN validatePairs(Tail(pairs), cache, kv, pairMap)
         ELSE IF existing = <<lidUser>>
              THEN validatePairs(Tail(pairs), cache1, kv, pairMap)
              ELSE validatePairs(Tail(pairs), cache1, kv, pairMap1)

(* The transaction body of storeLIDPNMappings: the keys.set calls and the   *)
(* cache writes, pair by pair.                                             *)
RECURSIVE writePairs(_, _, _)
writePairs(pairMap, cache, writes) ==
    IF pairMap = <<>> THEN [cache |-> cache, writes |-> writes]
    ELSE LET pnUser == Head(pairMap)[1]
             lidUser == Head(pairMap)[2]
         IN writePairs(Tail(pairMap),
                Put(Put(cache, PnCacheKey(pnUser), lidUser), LidCacheKey(lidUser), pnUser),
                Put(Put(writes, PnStoreKey(pnUser), lidUser), ReverseStoreKey(lidUser), pnUser))

(* storeLIDPNMappings(pairs): the cache afterwards and the keys written. *)
storeLIDPNMappings(pairs, cache, kv) ==
    LET v == validatePairs(pairs, cache, kv, <<>>)
    IN writePairs(v.pairMap, v.cache, <<>>)

(* The JID getLIDForPN returns for a LID user (line 113): `${lidUser}@lid`. *)
unifiedLid_WithDevice(lidUser) == jidEncode(lidUser, LidServer, 1)

unifiedLid(lidUser) == jidEncode(lidUser, LidServer, 0)

(* getLIDForPN(pn): the user-level LID JID (or none) and the cache afterwards. *)
getLIDForPN(pn, cache, kv) ==
    IF ~isPnUser(pn) THEN [lid |-> <<>>, cache |-> cache]
    ELSE LET pnUser == pn.user
         IN IF PnCacheKey(pnUser) \in DOMAIN cache
            THEN [lid |-> <<unifiedLid(cache[PnCacheKey(pnUser)])>>,
                  cache |-> cache]
            ELSE IF PnStoreKey(pnUser) \in DOMAIN kv
            THEN [lid |-> <<unifiedLid(kv[PnStoreKey(pnUser)])>>,
                  cache |-> Put(Put(cache, PnCacheKey(pnUser), kv[PnStoreKey(pnUser)]),
                                LidCacheKey(kv[PnStoreKey(pnUser)]), pnUser)]
            ELSE [lid |-> <<>>, cache |-> cache]

(* getPNForLID(lid): the user-level PN JID (or none) and the cache afterwards. *)
getPNForLID(lid, cache, kv) ==
    IF ~isLidUser(lid) THEN [pn |-> <<>>, cache |-> cache]
    ELSE LET lidUser == lid.user
         IN IF LidCacheKey(lidUser) \in DOMAIN cache
            THEN [pn |-> <<jidEncode(cache[LidCacheKey(lidUser)], S_WHATSAPP_NET, 0)>>,
                  cache |-> cache]
            ELSE IF ReverseStoreKey(lidUser) \in DOMAIN kv
            THEN [pn |-> <<jidEncode(kv[ReverseStoreKey(lidUser)], S_WHATSAPP_NET, 0)>>,
                  cache |-> Put(cache, LidCacheKey(lidUser), kv[ReverseStoreKey(lidUser)])]
            ELSE [pn |-> <<>>, cache |-> cache]

(* getLIDsForPNs(pns): getLIDForPN over a batch, keeping the PNs that have  *)
(* a mapping, as {pn, lid} pairs.                                          *)
RECURSIVE getLIDsForPNs(_, _, _)
getLIDsForPNs(pns, cache, kv) ==
    IF pns = <<>> THEN [result |-> <<>>, cache |-> cache]
    ELSE LET one == getLIDForPN(Head(pns), cache, kv)
             rest == getLIDsForPNs(Tail(pns), one.cache, kv)
         IN [result |-> (IF one.lid = <<>> THEN <<>>
                         ELSE << [pn |-> Head(pns), lid |-> one.lid[1]] >>) \o rest.result,
             cache |-> rest.cache]

-----------------------------------------------------------------------------
(* The keystore as a relayMessage call's transaction sees it: its own       *)
(* pending writes over the committed content.                              *)

TxLidMapping(r) == Overlay(keys.lidMapping, relay[r].tx.lidMapping)

TxSessions(r) == Overlay(keys.session, relay[r].tx.session)

(* keys.transaction(body): a body that returns commits its writes. *)
Commit(k, tx) ==
    [session |-> Overlay(k.session, tx.session),
     senderKeyMemory |-> Overlay(k.senderKeyMemory, tx.senderKeyMemory),
     lidMapping |-> Overlay(k.lidMapping, tx.lidMapping),
     deviceList |-> k.deviceList \cup tx.deviceList]

-----------------------------------------------------------------------------
(* Session assertion (assertSessions, assertSessionsInternal).              *)

(* validateSession(jid).exists, inside call r's transaction. *)
validateSession(r, jid) == jidToSignalProtocolAddress(jid) \in DOMAIN TxSessions(r)

(* The first loop of assertSessionsInternal: the JIDs that need a pre-key   *)
(* fetch and the presence cache after the validations.                     *)
sessionCheck(r, jids) ==
    LET uniqueJids == Dedupe(jids)
        Cached(j) == jidToSignalProtocolAddress(j) \in DOMAIN peerSessionsCache
        Missing(j) == IF Cached(j)
                      THEN ~peerSessionsCache[jidToSignalProtocolAddress(j)]
                      ELSE ~validateSession(r, j)
        validated == { j \in Range(uniqueJids) : ~Cached(j) }
    IN [jidsRequiringFetch |-> SelectSeqIn(uniqueJids, { j \in Range(uniqueJids) : Missing(j) }),
        cache |-> Overlay(peerSessionsCache,
                     [a \in { jidToSignalProtocolAddress(j) : j \in validated } |->
                         a \in DOMAIN TxSessions(r)])]

(* The JIDs the pre-key query asks for: the LID ones, then the LIDs of the  *)
(* PN ones.                                                                *)
wireJidsToFetch(r, jidsRequiringFetch) ==
    LET lids == getLIDsForPNs(
                    SelectSeqIn(jidsRequiringFetch, { j \in Range(jidsRequiringFetch) : isPnUser(j) }),
                    mappingCache, TxLidMapping(r))
        lidJids == SelectSeqIn(jidsRequiringFetch,
                               { j \in Range(jidsRequiringFetch) : isLidUser(j) })
    IN [wireJids |-> lidJids \o [i \in DOMAIN lids.result |-> lids.result[i].lid],
        cache |-> lids.cache]

(* parseAndInjectE2ESessions: a fresh session for every JID the server     *)
(* answered for (it answers for the JIDs asked).                           *)
parseAndInjectE2ESessions(wireJids) ==
    [a \in { jidToSignalProtocolAddress(j) : j \in Range(wireJids) } |-> "pkmsg"]

(* assertSessionsInternal(jids) of call r.  queryOk: the pre-key query      *)
(* answered.  ok is FALSE when the function throws.                        *)
assertSessionsInternal(r, jids, queryOk) ==
    LET chk == sessionCheck(r, jids)
        wire == wireJidsToFetch(r, chk.jidsRequiringFetch)
    IN IF chk.jidsRequiringFetch = <<>>
       THEN [ok |-> TRUE, didFetchNewSession |-> FALSE, sessions |-> <<>>,
             peerSessionsCache |-> chk.cache, mappingCache |-> mappingCache]
       ELSE IF ~queryOk
       THEN [ok |-> FALSE, didFetchNewSession |-> FALSE, sessions |-> <<>>,
             peerSessionsCache |-> chk.cache, mappingCache |-> wire.cache]
       ELSE [ok |-> TRUE, didFetchNewSession |-> TRUE,
             sessions |-> parseAndInjectE2ESessions(wire.wireJids),
             peerSessionsCache |->
                 Overlay(chk.cache,
                     [a \in { jidToSignalProtocolAddress(j) : j \in Range(wire.wireJids) } |-> TRUE]),
             mappingCache |-> wire.cache]

(* assertSessions without the try/catch of the compatibility mode. *)
assertSessions_Rethrows(r, jids, queryOk) == assertSessionsInternal(r, jids, queryOk)

(* assertSessions(jids): with compatV6GroupSend a failure is swallowed. *)
assertSessions(r, jids, queryOk) ==
    LET res == assertSessionsInternal(r, jids, queryOk)
    IN IF compatV6GroupSend THEN [res EXCEPT !.ok = TRUE] ELSE res

-----------------------------------------------------------------------------
(* Device resolution (getUSyncDevices).                                     *)

Device(user, device, jid) == [user |-> user, device |-> device, jid |-> jid]

(* extractDeviceJids and the wire JID of each extracted device, for one    *)
(* user of the USync answer.                                               *)
extractDeviceJids(jid, ignoreZeroDevices) ==
    LET ds == SortedSeq({ d \in ServerDevices(jid.user) : ~ignoreZeroDevices \/ d # 0 })
    IN [i \in DOMAIN ds |-> Device(jid.user, ds[i], jidEncode(jid.user, jid.server, ds[i]))]

(* The USync queries of one call for the users to fetch (lines 338-350):   *)
(* none when there is nobody to fetch, else one naming them all.           *)
usyncQueries_PerUser(toFetch) == [i \in DOMAIN toFetch |-> << toFetch[i] >>]

usyncQueries(toFetch) == IF toFetch = <<>> THEN <<>> ELSE << toFetch >>

(* getUSyncDevices(jids, useCache, ignoreZeroDevices) inside call r's      *)
(* transaction, cache being the LID mapping cache at the call: whether a   *)
(* USync query is issued, the devices returned when it answers, and the    *)
(* writes made on the way.                                                 *)
getUSyncDevices(r, jids, useCache, ignoreZeroDevices, cache) ==
    LET isExplicit == { j \in Range(jids) : j.device > 0 }
        explicit == SelectSeqIn(jids, isExplicit)
        rest == SelectSeqIn(jids, Range(jids) \ isExplicit)
        jidsWithUser == [i \in DOMAIN rest |->
                            IF isLidUser(rest[i]) THEN rest[i] ELSE jidNormalizedUser(rest[i])]
        hit == { j \in Range(jidsWithUser) : useCache /\ j.user \in DOMAIN userDevicesCache }
        cached == SelectSeqIn(jidsWithUser, hit)
        toFetch == SelectSeqIn(jidsWithUser, Range(jidsWithUser) \ hit)
        lidResults == SelectSeqIn(toFetch, { j \in Range(toFetch) : ServerLid(j.user) # <<>> })
        stored == storeLIDPNMappings(
                      [i \in DOMAIN lidResults |->
                          [lid |-> jidEncode(ServerLid(lidResults[i].user)[1], LidServer, 0),
                           pn |-> lidResults[i]]],
                      cache, TxLidMapping(r))
        extracted == [i \in DOMAIN toFetch |-> extractDeviceJids(toFetch[i], ignoreZeroDevices)]
        deviceMap == [u \in { toFetch[i].user : i \in { k \in DOMAIN toFetch : extracted[k] # <<>> } } |->
                        Flatten([i \in DOMAIN toFetch |->
                                    IF toFetch[i].user = u THEN extracted[i] ELSE <<>>])]
    IN [query |-> toFetch # <<>>,
        toFetch |-> toFetch,
        queries |-> usyncQueries(toFetch),
        lookedUp |-> IF useCache THEN { j.user : j \in Range(jidsWithUser) } ELSE {},
        deviceResults |->
            [i \in DOMAIN explicit |-> Device(explicit[i].user, explicit[i].device, explicit[i])]
            \o Flatten([i \in DOMAIN cached |-> userDevicesCache[cached[i].user]])
            \o Flatten(extracted),
        userDevicesCache |-> Overlay(userDevicesCache, deviceMap),
        mappingCache |-> stored.cache,
        lidMapping |-> stored.writes,
        deviceList |-> DOMAIN deviceMap]

-----------------------------------------------------------------------------
(* relayMessage (src/Socket/messages-send.ts 630-1120).                     *)

isRetryResend(rec) == rec.participant # NoParticipant

isGroup(rec) == rec.jid.server = GroupServer

isStatus(rec) == rec.jid = statusJid

isLid(rec) == rec.jid.server = LidServer

isNewsletter(rec) == rec.jid.server = NewsletterServer

isPeer(rec) ==
    "category" \in DOMAIN rec.additionalAttributes /\ rec.additionalAttributes.category = "peer"

(* The calls made: a destination and the options that matter here. *)
RelayOptions ==
    LET Opt(jid, participant, attrs, nodes, list) ==
            [jid |-> jid, participant |-> participant, additionalAttributes |-> attrs,
             additionalNodes |-> nodes, statusJidList |-> list]
        Plain(jid) == Opt(jid, NoParticipant, EmptyAttrs, <<>>, <<>>)
        Retry(jid, pjid) == Opt(jid, << [jid |-> pjid, count |-> 2] >>, EmptyAttrs, <<>>, <<>>)
    IN { Plain(peerPn), Plain(peerLid), Plain(unmappedPn), Plain(groupJid),
         Plain(newsletterJid),
         Opt(statusJid, NoParticipant, EmptyAttrs, <<>>, <<peerLid>>),
         Opt(statusJid, NoParticipant, EmptyAttrs, <<>>, <<peerLid, unmappedPn>>),
         \* sendPeerDataOperationMessage
         Opt(jidNormalizedUser(meId), NoParticipant,
             [category |-> "peer", push_priority |-> "high_force"],
             << Node("meta", [appdata |-> "default"], <<>>) >>, <<>>),
         Retry(peerPn, peerPn),
         Retry(peerPn, meId),
         Retry(peerLid, jidEncode("aL", LidServer, 1)),
         Retry(peerLid, jidEncode(meLid.user, LidServer, 0)),
         Retry(groupJid, jidEncode("aL", LidServer, 1)) }

getMessageType == "text"

(* The <message> stanza as built at lines 1048-1107. *)
buildStanza(rec, content, shouldIncludeDeviceIdentity) ==
    LET attrs0 == Spread([id |-> "msgId", to |-> rec.jid, type |-> getMessageType],
                         rec.additionalAttributes)
        attrs == IF isRetryResend(rec)
                 THEN IF isJidGroup(rec.jid)
                      THEN Spread(attrs0, [to |-> rec.jid, participant |-> rec.participant[1].jid])
                      ELSE IF areJidsSameUser(rec.participant[1].jid, meId)
                      THEN Spread(attrs0, [to |-> rec.participant[1].jid, recipient |-> rec.jid])
                      ELSE Spread(attrs0, [to |-> rec.participant[1].jid])
                 ELSE Spread(attrs0, [to |-> rec.jid])
    IN Node("message", attrs,
            content
            \o (IF shouldIncludeDeviceIdentity
                THEN << Node("device-identity", EmptyAttrs, <<>>) >> ELSE <<>>)
            \o rec.additionalNodes)

(* A newsletter stanza that also carries an <enc> node. *)
newsletterStanza_WithEnc(rec) ==
    Node("message",
         Spread([to |-> rec.jid, id |-> "msgId", type |-> getMessageType],
                rec.additionalAttributes),
         << Node("plaintext", EmptyAttrs, <<>>),
            Node("enc", [v |-> "2", type |-> "msg"], <<>>) >>)

(* The newsletter stanza of lines 695-713: the encoded message in a        *)
(* <plaintext> child.                                                      *)
newsletterStanza(rec) ==
    Node("message",
         Spread([to |-> rec.jid, id |-> "msgId", type |-> getMessageType],
                rec.additionalAttributes),
         << Node("plaintext", EmptyAttrs, <<>>) >>)

(* The call up to its first await inside the transaction (lines 643-716,   *)
(* 934-985): the newsletter stanza is ready to send; a group or status     *)
(* relay goes on to its metadata; a 1:1 relay to device resolution, or     *)
(* with the devices it already has (retry, peer) to session assertion.     *)
relayMessage(r) ==
    /\ relay[r].pc = "idle"
    /\ \E o \in RelayOptions :
         LET rec0 == [IdleRelay EXCEPT
                        !.jid = o.jid,
                        !.meLid = <<meLid>>,
                        !.participant = o.participant,
                        !.additionalNodes = o.additionalNodes,
                        !.statusJidList = o.statusJidList,
                        !.shouldIncludeDeviceIdentity = (o.participant # NoParticipant),
                        !.additionalAttributes = o.additionalAttributes]
             oneToOne == ~isGroup(rec0) /\ ~isStatus(rec0)
             rec1 == [rec0 EXCEPT
                        !.additionalAttributes =
                            IF isRetryResend(rec0) /\ oneToOne
                            THEN Spread(@, [device_fanout |-> "false"]) ELSE @,
                        !.devices =
                            IF isRetryResend(rec0)
                            THEN << Device(o.participant[1].jid.user, o.participant[1].jid.device,
                                           o.participant[1].jid) >>
                            ELSE <<>>]
             ownId == IF isLid(rec1) THEN meLid ELSE meId
             targetUserServer == IF isLid(rec1) THEN LidServer ELSE S_WHATSAPP_NET
             placeholders ==
                 << Device(o.jid.user, 0, jidEncode(o.jid.user, targetUserServer, 0)) >>
                 \o (IF o.jid.user # ownId.user
                     THEN << Device(ownId.user, 0, jidEncode(ownId.user, targetUserServer, 0)) >>
                     ELSE <<>>)
         IN relay' = [relay EXCEPT ![r] =
                IF isNewsletter(rec1)
                THEN [rec1 EXCEPT
                        !.pc = "sendNode",
                        !.sendNodeCalls = @ + 1,
                        !.stanza = << newsletterStanza(rec1) >>]
                ELSE IF ~oneToOne THEN [rec1 EXCEPT !.pc = "groupData"]
                ELSE IF isRetryResend(rec1) THEN [rec1 EXCEPT !.pc = "assertSessions"]
                ELSE IF isPeer(rec1)
                THEN [rec1 EXCEPT !.pc = "assertSessions", !.devices = placeholders]
                ELSE [rec1 EXCEPT !.pc = "getUSyncDevices"]]
    /\ UNCHANGED <<media, compatV6GroupSend, keys, userDevicesCache, peerSessionsCache,
                   mappingCache, groupMetadataCache, encryptionMutex, skdmSent>>

(* What a configured cachedGroupMetadata callback may answer for the group: *)
(* nothing, or the metadata it stored at most five minutes ago ("fresh")   *)
(* or longer ago ("old"), with a _cachedAt stamp of that time or without.  *)
CachedGroupMetadataAnswers ==
    {<<>>} \cup { << [data |-> ServerGroupMetadata, stamped |-> s, age |-> a] >> :
                    s \in BOOLEAN, a \in {"fresh", "old"} }

(* storeLIDMappingsAndParticipants (src/unnamed/part_000 52-89): the entry *)
(* the groups socket caches for fetched metadata.                          *)
storeLIDMappingsAndParticipants(metadata) ==
    << [participants |-> [i \in DOMAIN metadata.participants |-> metadata.participants[i].id],
        addressingMode |-> metadata.addressingMode,
        expired |-> FALSE] >>

(* A relay whose metadata lookup asks the user's cache also for status. *)
useCachedGroupMetadata_AlsoForStatus(rec) == TRUE

(* useCachedGroupMetadata as line 659 leaves it, the option not being set. *)
useCachedGroupMetadata(rec) == ~isStatus(rec)

(* The metadata chosen at lines 724-776, given the user cache's answer:    *)
(* source "user", "internal" or "fetch" (status: none), and the sources    *)
(* asked on the way.                                                       *)
groupDataSource(rec, answer) ==
    LET cacheExpired == answer # <<>> /\ answer[1].stamped /\ answer[1].age = "old"
        fromUser == IF useCachedGroupMetadata(rec) /\ answer # <<>> /\ ~cacheExpired
                    THEN <<answer[1].data>> ELSE <<>>
        asked == IF useCachedGroupMetadata(rec) THEN {"user"} ELSE {}
        cached == groupMetadataCache
    IN IF fromUser # <<>>
       THEN [source |-> "user", groupData |-> fromUser, consulted |-> asked,
             age |-> answer[1].age]
       ELSE IF isStatus(rec)
       THEN [source |-> "none", groupData |-> <<>>, consulted |-> asked, age |-> ""]
       ELSE IF cached # <<>> /\ Len(cached[1].participants) > 0 /\ ~cached[1].expired
       THEN [source |-> "internal",
             consulted |-> asked \cup {"internal"},
             age |-> "fresh",
             groupData |-> << [addressingMode |-> cached[1].addressingMode,
                               participants |-> [i \in DOMAIN cached[1].participants |->
                                                    [id |-> cached[1].participants[i], lid |-> <<>>]],
                               ephemeralDuration |-> 0] >>]
       ELSE [source |-> "fetch", groupData |-> <<ServerGroupMetadata>>,
             consulted |-> asked \cup {"internal", "fetch"},
             age |-> "fetched"]

(* The Promise.all of lines 723-796: the group metadata and the            *)
(* sender-key-memory of the group.  A metadata fetch may fail.             *)
relayGroupData(r) ==
    /\ relay[r].pc = "groupData"
    /\ \E answer \in CachedGroupMetadataAnswers, fetchOk \in BOOLEAN :
         \E src \in { groupDataSource(relay[r], answer) } :
         LET rec == relay[r]
             senderKeyMap == IF ~isRetryResend(rec) /\ ~isStatus(rec)
                             THEN Overlay(keys.senderKeyMemory, rec.tx.senderKeyMemory)[rec.jid]
                             ELSE {}
         IN IF src.source = "fetch" /\ ~fetchOk
            THEN /\ relay' = [relay EXCEPT ![r] =
                        [rec EXCEPT !.pc = "failed", !.tx = EmptyTx, !.consulted = src.consulted]]
                 /\ UNCHANGED groupMetadataCache
            ELSE /\ relay' = [relay EXCEPT ![r] =
                        [rec EXCEPT
                           !.pc = IF isRetryResend(rec) THEN "assertSessions" ELSE "getUSyncDevices",
                           !.groupData = src.groupData,
                           !.consulted = src.consulted,
                           !.groupDataAge = src.age,
                           !.senderKeyMap = senderKeyMap,
                           !.readSenderKeyMap = senderKeyMap]]
                 /\ groupMetadataCache' =
                        IF src.source = "fetch"
                        THEN storeLIDMappingsAndParticipants(ServerGroupMetadata)
                        ELSE groupMetadataCache
    /\ UNCHANGED <<media, compatV6GroupSend, keys, userDevicesCache, peerSessionsCache,
                   mappingCache, encryptionMutex, skdmSent>>

(* Five minutes pass: the cached group metadata is older than CACHE_MAX_AGE. *)
cacheExpires ==
    /\ groupMetadataCache # <<>>
    /\ ~groupMetadataCache[1].expired
    /\ groupMetadataCache' = << [groupMetadataCache[1] EXCEPT !.expired = TRUE] >>
    /\ UNCHANGED <<media, compatV6GroupSend, keys, userDevicesCache, peerSessionsCache,
                   mappingCache, encryptionMutex, relay, skdmSent>>

(* The participant JIDs to resolve (lines 799-816), with the LID mapping   *)
(* cache after the PN-to-LID conversion.                                   *)
participantsList(r) ==
    LET rec == relay[r]
        gd == rec.groupData
        list0 == IF gd # <<>> /\ ~isStatus(rec)
                 THEN [i \in DOMAIN gd[1].participants |->
                          IF gd[1].participants[i].lid # <<>>
                          THEN gd[1].participants[i].lid[1] ELSE gd[1].participants[i].id]
                 ELSE <<>>
        convert == ~isStatus(rec) /\ gd # <<>> /\ gd[1].addressingMode = "lid"
        pnParticipants == SelectSeqIn(list0, { p \in Range(list0) : isPnUser(p) })
        lidMappings == IF convert /\ pnParticipants # <<>>
                       THEN getLIDsForPNs(pnParticipants, mappingCache, TxLidMapping(r))
                       ELSE [result |-> <<>>, cache |-> mappingCache]
        LidOf(p) == LET hits == { i \in DOMAIN lidMappings.result : lidMappings.result[i].pn = p }
                    IN IF hits = {} THEN p
                       ELSE lidMappings.result[CHOOSE i \in hits : \A k \in hits : k <= i].lid
        list1 == [i \in DOMAIN list0 |-> LidOf(list0[i])]
    IN [list |-> IF isStatus(rec) THEN list1 \o rec.statusJidList ELSE list1,
        cache |-> lidMappings.cache]

(* The sender's own primary device as lines 836-843 add it to the devices  *)
(* of a group or status relay: additionalDevices is the resolver's answer, *)
(* lid the value of creds.me.lid (none when absent).                       *)
ownPrimaryDevice(additionalDevices, groupData, lid) ==
    LET isLidGroup == groupData # <<>> /\ groupData[1].addressingMode = "lid"
        myJid == IF isLidGroup THEN lid ELSE <<meId>>
        Mephone == /\ myJid # <<>>
                   /\ \E i \in DOMAIN additionalDevices :
                         /\ additionalDevices[i].user = myJid[1].user
                         /\ additionalDevices[i].device = 0
    IN IF ~Mephone /\ myJid # <<>>
       THEN << Device(myJid[1].user, 0, jidNormalizedUser(myJid[1])) >>
       ELSE <<>>

(* Device resolution of a relay without participant: for a group or status *)
(* relay lines 798-851, for a 1:1 relay lines 963-984.  The USync query    *)
(* may fail.                                                               *)
relayGetUSyncDevices(r) ==
    /\ relay[r].pc = "getUSyncDevices"
    /\ \E queryOk \in BOOLEAN :
         \E plist \in { participantsList(r) } :
         LET rec == relay[r]
             oneToOne == ~isGroup(rec) /\ ~isStatus(rec)
             senderIdentity == IF isLid(rec) THEN jidEncode(meLid.user, LidServer, 0)
                               ELSE jidEncode(meId.user, S_WHATSAPP_NET, 0)
             jids == IF oneToOne THEN <<senderIdentity, rec.jid>> ELSE plist.list
             cache == IF oneToOne THEN mappingCache ELSE plist.cache
         IN \E res \in { getUSyncDevices(r, jids, TRUE, FALSE, cache) } :
         LET devices == IF oneToOne THEN res.deviceResults
                        ELSE rec.devices \o res.deviceResults
                             \o ownPrimaryDevice(res.deviceResults, rec.groupData, rec.meLid)
             addressingMode == IF rec.groupData # <<>> THEN rec.groupData[1].addressingMode ELSE "pn"
             attrs1 == IF isGroup(rec)
                       THEN Spread(rec.additionalAttributes, [addressing_mode |-> addressingMode])
                       ELSE rec.additionalAttributes
         IN IF res.query /\ ~queryOk
            THEN /\ relay' = [relay EXCEPT ![r] = [rec EXCEPT !.pc = "failed", !.tx = EmptyTx]]
                 /\ mappingCache' = cache
                 /\ UNCHANGED userDevicesCache
            ELSE /\ relay' = [relay EXCEPT ![r] =
                        [rec EXCEPT
                           !.pc = "assertSessions",
                           !.devices = devices,
                           !.additionalAttributes = attrs1,
                           !.tx = [@ EXCEPT
                                     !.lidMapping = Overlay(@, res.lidMapping),
                                     !.deviceList = @ \cup res.deviceList]]]
                 /\ mappingCache' = res.mappingCache
                 /\ userDevicesCache' = res.userDevicesCache
    /\ UNCHANGED <<media, compatV6GroupSend, keys, peerSessionsCache, groupMetadataCache,
                   encryptionMutex, skdmSent>>

(* The SKDM recipients of a group or status relay (lines 876-885): every   *)
(* device of the list, under the server of its wire JID.                   *)
senderKeyJids(devices) ==
    [i \in DOMAIN devices |->
        jidEncode(devices[i].user, devices[i].jid.server, devices[i].device)]

(* No device taken for the sending one. *)
isExactSenderDevice_Never(jid) == FALSE

isExactSenderDevice(jid) == jid = meId \/ jid = meLid

(* The recipients of a 1:1 relay (lines 987-1010): own other devices and   *)
(* the peer's, without the sending device itself.                          *)
meRecipients(devices) ==
    LET kept == { i \in DOMAIN devices :
                    /\ ~isExactSenderDevice(devices[i].jid)
                    /\ (devices[i].user = meId.user \/ devices[i].user = meLid.user) }
        idx == SortedSeq(kept)
    IN [k \in DOMAIN idx |-> devices[idx[k]].jid]

otherRecipients(devices) ==
    LET kept == { i \in DOMAIN devices :
                    /\ ~isExactSenderDevice(devices[i].jid)
                    /\ ~(devices[i].user = meId.user \/ devices[i].user = meLid.user) }
        idx == SortedSeq(kept)
    IN [k \in DOMAIN idx |-> devices[idx[k]].jid]

allRecipients(devices) ==
    LET kept == { i \in DOMAIN devices : ~isExactSenderDevice(devices[i].jid) }
        idx == SortedSeq(kept)
    IN [k \in DOMAIN idx |-> devices[idx[k]].jid]

(* The plaintexts pairwise encryption is given. *)
message == [kind |-> "message", destinationJid |-> <<>>]

senderKeyMsg == [kind |-> "senderKeyDistributionMessage", destinationJid |-> <<>>]

(* meMsg (lines 667-672): the deviceSentMessage wrapper of the message. *)
meMsg(rec) == [kind |-> "deviceSentMessage", destinationJid |-> <<rec.jid>>]

isOwnUser(jid) == jid.user = meId.user \/ jid.user = meLid.user

(* A choice of plaintext that gives the wrapper to whoever it is passed for. *)
msgToEncrypt_DsmForAll(jid, patchedMessage, dsmMessage) ==
    IF dsmMessage # <<>> THEN dsmMessage[1] ELSE patchedMessage

(* msgToEncrypt of createParticipantNodes (lines 563-577) for recipient    *)
(* jid, dsmMessage being the optional fourth argument.                     *)
msgToEncrypt(jid, patchedMessage, dsmMessage) ==
    IF dsmMessage # <<>> /\ isOwnUser(jid) /\ ~isExactSenderDevice(jid)
    THEN dsmMessage[1] ELSE patchedMessage

(* The plaintexts of the two createParticipantNodes calls of lines         *)
(* 1014-1021, in the order of the recipients.                              *)
oneToOnePlaintexts(rec) ==
    LET me == meRecipients(rec.devices)
        other == otherRecipients(rec.devices)
    IN [i \in DOMAIN me |-> msgToEncrypt(me[i], meMsg(rec), <<>>)]
       \o [i \in DOMAIN other |-> msgToEncrypt(other[i], message, <<meMsg(rec)>>)]

(* Session assertion for the recipients: lines 846-899 of a group or       *)
(* status relay (the expiration attribute, encryptGroupMessage, the        *)
(* sender-key marking), lines 987-1012 of a 1:1 relay.  The pre-key query  *)
(* may fail.                                                               *)
(* The configured chunk of the progressive session assertion (line 127;    *)
(* the default is 10, taken smaller here than the devices of the group).   *)
groupAssertChunk == 2

(* The calls of assertSessions a relay makes for the jids it is about to   *)
(* encrypt for (line 899 for a group or status, one call with them all).   *)
assertCallsFor(jids) == IF jids = <<>> THEN <<>> ELSE << jids >>

relayAssertSessions(r) ==
    /\ relay[r].pc = "assertSessions"
    /\ \E queryOk \in BOOLEAN :
         \E skJids \in { senderKeyJids(relay[r].devices) } :
         \E recipients \in { IF ~isGroup(relay[r]) /\ ~isStatus(relay[r])
                              THEN meRecipients(relay[r].devices) \o otherRecipients(relay[r].devices)
                              ELSE skJids },
            plaintext \in { IF ~isGroup(relay[r]) /\ ~isStatus(relay[r])
                             THEN oneToOnePlaintexts(relay[r])
                             ELSE [i \in DOMAIN skJids |-> senderKeyMsg] },
            asserted \in { IF ~isGroup(relay[r]) /\ ~isStatus(relay[r])
                            THEN allRecipients(relay[r].devices) ELSE skJids } :
         LET rec == relay[r]
             oneToOne == ~isGroup(rec) /\ ~isStatus(rec)
         IN \E res \in { assertSessions(r, asserted, queryOk) },
               threw \in { ~assertSessionsInternal(r, asserted, queryOk).ok } :
         LET expiring == /\ rec.groupData # <<>>
                         /\ rec.groupData[1].ephemeralDuration > 0
             attrs1 == IF ~oneToOne /\ expiring
                       THEN Spread(rec.additionalAttributes,
                                   [expiration |-> ToString(rec.groupData[1].ephemeralDuration)])
                       ELSE rec.additionalAttributes
         IN /\ relay' = [relay EXCEPT ![r] =
                  IF ~res.ok
                  THEN [rec EXCEPT !.pc = "failed", !.tx = EmptyTx, !.assertFailed = threw,
                                   !.assertCalls = assertCallsFor(asserted)]
                  ELSE [rec EXCEPT
                          !.pc = "createParticipantNodes",
                          !.assertFailed = threw,
                          !.assertCalls = assertCallsFor(asserted),
                          !.additionalAttributes = attrs1,
                          !.senderKeyMap = IF oneToOne THEN @ ELSE @ \cup Range(skJids),
                          !.recipients = recipients,
                          !.plaintext = plaintext,
                          !.dsm = { recipients[i] :
                                      i \in { k \in DOMAIN recipients :
                                                plaintext[k].kind = "deviceSentMessage" } },
                          !.tx = [@ EXCEPT !.session = Overlay(@, res.sessions)]]]
            /\ peerSessionsCache' = res.peerSessionsCache
            /\ mappingCache' = res.mappingCache
    /\ UNCHANGED <<media, compatV6GroupSend, keys, userDevicesCache, groupMetadataCache,
                   encryptionMutex, skdmSent>>

-----------------------------------------------------------------------------
(* createParticipantNodes (lines 540-628) and the rest of relayMessage.     *)

(* signalRepository.encryptMessage for jid on the sessions given: the type *)
(* of the ciphertext, or "fail" when it throws (there is no session).      *)
encryptMessage(sessions, jid) ==
    IF jidToSignalProtocolAddress(jid) \in DOMAIN sessions
    THEN sessions[jidToSignalProtocolAddress(jid)]
    ELSE "fail"

Finished_Started(e) == e \in {"msg", "pkmsg", "fail", "run"}

Finished(e) == e \in {"msg", "pkmsg", "fail"}

(* How a pairwise encryption of createParticipantNodes is entered: through *)
(* the keyed mutex unless compatV6GroupSend (lines 581-594).               *)
usesEncryptionMutex == ~compatV6GroupSend

(* The encryptions of a fan-out as they start: each recipient's runs, or   *)
(* waits for the keyed mutex of its JID when that is held.                 *)
startEncryptions(recipients) ==
    [i \in DOMAIN recipients |->
        IF usesEncryptionMutex
           /\ (recipients[i] \in encryptionMutex
               \/ \E k \in 1..(i - 1) : recipients[k] = recipients[i])
        THEN "wait" ELSE "run"]

(* createParticipantNodes is called (lines 901, 1014-1021): every          *)
(* recipient's encryption starts.                                          *)
relayCreateParticipantNodes(r) ==
    /\ relay[r].pc = "createParticipantNodes"
    /\ LET enc == startEncryptions(relay[r].recipients)
       IN /\ relay' = [relay EXCEPT ![r] = [@ EXCEPT !.pc = "encrypting", !.enc = enc]]
          /\ encryptionMutex' =
                 IF usesEncryptionMutex
                 THEN encryptionMutex \cup
                      { relay[r].recipients[i] : i \in { k \in DOMAIN enc : enc[k] = "run" } }
                 ELSE encryptionMutex
    /\ UNCHANGED <<media, compatV6GroupSend, keys, userDevicesCache, peerSessionsCache,
                   mappingCache, groupMetadataCache, skdmSent>>

(* A waiting encryption gets the keyed mutex of its JID. *)
mutexAcquire(r, i) ==
    /\ i \in DOMAIN relay[r].enc
    /\ relay[r].enc[i] = "wait"
    /\ relay[r].recipients[i] \notin encryptionMutex
    /\ relay' = [relay EXCEPT ![r].enc[i] = "run"]
    /\ encryptionMutex' = encryptionMutex \cup {relay[r].recipients[i]}
    /\ UNCHANGED <<media, compatV6GroupSend, keys, userDevicesCache, peerSessionsCache,
                   mappingCache, groupMetadataCache, skdmSent>>

(* What a failed encryption does to the call (lines 616-622): dropped with *)
(* a warning under compatV6GroupSend, thrown otherwise.                    *)
encryptionFailureIsFatal == ~compatV6GroupSend

(* A pairwise encryption of the fan-out returns or throws; the mutex, if   *)
(* used, is released.  A call that already failed no longer has its        *)
(* transaction, and whatever its remaining encryptions return is dropped.  *)
encryptMessageDone(r, i) ==
    /\ i \in DOMAIN relay[r].enc
    /\ relay[r].enc[i] = "run"
    /\ LET rec == relay[r]
           result == encryptMessage(IF rec.pc = "encrypting" THEN TxSessions(r) ELSE keys.session,
                                    rec.recipients[i])
       IN relay' = [relay EXCEPT ![r] =
              IF rec.pc = "encrypting" /\ result = "fail" /\ encryptionFailureIsFatal
              THEN [rec EXCEPT !.pc = "failed", !.tx = EmptyTx, !.enc[i] = result]
              ELSE [rec EXCEPT !.enc[i] = result]]
    /\ encryptionMutex' = IF usesEncryptionMutex
                          THEN encryptionMutex \ {relay[r].recipients[i]}
                          ELSE encryptionMutex
    /\ UNCHANGED <<media, compatV6GroupSend, keys, userDevicesCache, peerSessionsCache,
                   mappingCache, groupMetadataCache, skdmSent>>

(* extraAttrs as createParticipantNodes receives it. *)
extraAttrs == EmptyAttrs

(* generateParticipantHashV2(participants): a digest of the sorted JIDs,   *)
(* kept here as the set it is taken of.                                    *)
generateParticipantHashV2(participants) == [v |-> "2", of |-> Range(participants)]

(* extraAttrs after line 1026 of a 1:1 relay: the object gets phash once   *)
(* createParticipantNodes has returned; no later statement reads it.       *)
extraAttrsAfterFanOut(rec) ==
    IF meRecipients(rec.devices) # <<>> \/ otherRecipients(rec.devices) # <<>>
    THEN Spread(extraAttrs,
                [phash |-> generateParticipantHashV2(meRecipients(rec.devices)
                                                     \o otherRecipients(rec.devices))])
    ELSE extraAttrs

(* The <to> nodes createParticipantNodes returns (lines 601-626): one per  *)
(* recipient whose encryption returned.                                    *)
participantNodes(rec) ==
    LET ok == SortedSeq({ i \in DOMAIN rec.enc : rec.enc[i] \in {"msg", "pkmsg"} })
    IN [k \in DOMAIN ok |->
          Node("to", [jid |-> rec.recipients[ok[k]]],
               << Node("enc", Spread([v |-> "2", type |-> rec.enc[ok[k]]], extraAttrs), <<>>) >>)]

(* Lines 1032-1046: the participants wrapper, or for a peer message the    *)
(* <enc> of the first recipient.                                           *)
participantsContent(rec) ==
    LET participants == participantNodes(rec)
    IN IF participants = <<>> THEN <<>>
       ELSE IF isPeer(rec) THEN << participants[1].content[1] >>
       ELSE << Node("participants", EmptyAttrs, participants) >>

(* The <enc type=skmsg> of a group or status relay (lines 923-927). *)
senderKeyMessageNode == Node("enc", Spread([v |-> "2", type |-> "skmsg"], extraAttrs), <<>>)

(* The <enc> of a retry-resend in a group (lines 913-921). *)
retryNode(rec, type) ==
    Node("enc", [v |-> "2", type |-> type, count |-> ToString(rec.participant[1].count)], <<>>)

(* A group content without the sender-key message. *)
groupContent_NoSkmsg(rec) == <<>>

(* The content of a group or status relay that is no retry-resend. *)
groupContent(rec) == <<senderKeyMessageNode>>

(* The flag without what the fan-out found. *)
deviceIdentityNeeded_IgnoresPkmsg(rec) == rec.shouldIncludeDeviceIdentity

(* shouldIncludeDeviceIdentity after the fan-out (lines 596-599, 902, 1029). *)
deviceIdentityNeeded(rec) ==
    rec.shouldIncludeDeviceIdentity \/ \E i \in DOMAIN rec.enc : rec.enc[i] = "pkmsg"

(* All encryptions of the fan-out are over (the Promise.all returned).  A  *)
(* 1:1 relay builds its stanza; a group or status relay writes the         *)
(* sender-key-memory and builds its stanza, or as a retry-resend starts    *)
(* the encryption of line 908.                                             *)
relayParticipantNodes(r) ==
    /\ relay[r].pc = "encrypting"
    /\ \A i \in DOMAIN relay[r].enc : Finished(relay[r].enc[i])
    /\ \E should \in { deviceIdentityNeeded(relay[r]) } :
       LET rec == relay[r]
           oneToOne == ~isGroup(rec) /\ ~isStatus(rec)
       IN relay' = [relay EXCEPT ![r] =
            IF oneToOne
            THEN [rec EXCEPT
                    !.pc = "sendNode",
                    !.sendNodeCalls = @ + 1,
                    !.shouldIncludeDeviceIdentity = should,
                    !.stanza = << buildStanza(rec, participantsContent(rec), should) >>]
            ELSE IF isRetryResend(rec)
            THEN [rec EXCEPT !.pc = "retryEncrypt", !.shouldIncludeDeviceIdentity = should]
            ELSE [rec EXCEPT
                    !.pc = "sendNode",
                    !.sendNodeCalls = @ + 1,
                    !.shouldIncludeDeviceIdentity = should,
                    !.tx = [@ EXCEPT !.senderKeyMemory = Put(@, rec.jid, rec.senderKeyMap)],
                    !.stanza = << buildStanza(rec, groupContent(rec) \o participantsContent(rec),
                                              should) >>]]
    /\ UNCHANGED <<media, compatV6GroupSend, keys, userDevicesCache, peerSessionsCache,
                   mappingCache, groupMetadataCache, encryptionMutex, skdmSent>>

(* The encryption of line 908 returns or throws. *)
relayRetryEncryptDone(r) ==
    /\ relay[r].pc = "retryEncrypt"
    /\ LET rec == relay[r]
           type == encryptMessage(TxSessions(r), rec.participant[1].jid)
       IN relay' = [relay EXCEPT ![r] =
            IF type = "fail"
            THEN [rec EXCEPT !.pc = "failed", !.tx = EmptyTx, !.retryEnc = type]
            ELSE [rec EXCEPT
                    !.pc = "sendNode",
                    !.sendNodeCalls = @ + 1,
                    !.retryEnc = type,
                    !.stanza = << buildStanza(rec,
                                     <<retryNode(rec, type)>> \o participantsContent(rec),
                                     rec.shouldIncludeDeviceIdentity) >>]]
    /\ UNCHANGED <<media, compatV6GroupSend, keys, userDevicesCache, peerSessionsCache,
                   mappingCache, groupMetadataCache, encryptionMutex, skdmSent>>

(* The <to> nodes and the <enc> nodes of a stanza. *)
ToNodes(stanza) ==
    Flatten([i \in DOMAIN stanza.content |->
                IF stanza.content[i].tag = "participants"
                THEN stanza.content[i].content ELSE <<>>])

ToJids(stanza) == { ToNodes(stanza)[i].attrs.jid : i \in DOMAIN ToNodes(stanza) }

TopEncNodes(stanza) ==
    SelectSeq(stanza.content, LAMBDA n : n.tag = "enc")

EncNodes(stanza) ==
    TopEncNodes(stanza) \o [i \in DOMAIN ToNodes(stanza) |-> ToNodes(stanza)[i].content[1]]

(* enableRecentMessageCache of the socket config: messageRetryManager is   *)
(* built (lines 164-166).                                                  *)
enableRecentMessageCache == TRUE

(* The addRecentMessage call after sendNode (lines 1113-1116), which the   *)
(* newsletter branch returns before (line 715): the key and message added. *)
addRecentMessage(rec) ==
    IF ~isNewsletter(rec) /\ enableRecentMessageCache /\ ~isRetryResend(rec)
    THEN << [jid |-> rec.jid, id |-> "msgId", message |-> message] >>
    ELSE <<>>

(* What the transaction commits when its body returns. *)
committed(rec) == Commit(keys, rec.tx)

(* sendNode(stanza) resolves (line 1111): the call returns msgId and the   *)
(* transaction commits its writes.                                         *)
sendNodeOk(r) ==
    /\ relay[r].pc = "sendNode"
    /\ LET rec == relay[r]
       IN /\ keys' = committed(rec)
          /\ relay' = [relay EXCEPT ![r] =
                 [rec EXCEPT !.pc = "done", !.tx = EmptyTx,
                             !.recentMessage = addRecentMessage(rec)]]
          /\ skdmSent' = IF rec.jid \in SenderKeyGroups
                         THEN [skdmSent EXCEPT ![rec.jid] = @ \cup ToJids(rec.stanza[1])]
                         ELSE skdmSent
    /\ UNCHANGED <<media, compatV6GroupSend, userDevicesCache, peerSessionsCache,
                   mappingCache, groupMetadataCache, encryptionMutex>>

(* A rejected sendNode whose transaction commits all the same. *)
sendNodeFail_Commits(r) ==
    /\ relay[r].pc = "sendNode"
    /\ keys' = committed(relay[r])
    /\ relay' = [relay EXCEPT ![r] = [@ EXCEPT !.pc = "failed", !.tx = EmptyTx]]
    /\ UNCHANGED <<media, compatV6GroupSend, userDevicesCache, peerSessionsCache,
                   mappingCache, groupMetadataCache, encryptionMutex, skdmSent>>

(* sendNode(stanza) rejects: the transaction body throws, its writes are   *)
(* dropped and the call rejects.                                           *)
sendNodeFail(r) ==
    /\ relay[r].pc = "sendNode"
    /\ relay' = [relay EXCEPT ![r] = [@ EXCEPT !.pc = "failed", !.tx = EmptyTx]]
    /\ UNCHANGED <<media, compatV6GroupSend, keys, userDevicesCache, peerSessionsCache,
                   mappingCache, groupMetadataCache, encryptionMutex, skdmSent>>

Next ==
    \/ \E r \in Relays : relayMessage(r)
    \/ \E r \in Relays : relayGroupData(r)
    \/ cacheExpires
    \/ \E r \in Relays : relayGetUSyncDevices(r)
    \/ \E r \in Relays : relayAssertSessions(r)
    \/ \E r \in Relays : relayCreateParticipantNodes(r)
    \/ \E r \in Relays : \E i \in DOMAIN relay[r].enc : mutexAcquire(r, i)
    \/ \E r \in Relays : \E i \in DOMAIN relay[r].enc : encryptMessageDone(r, i)
    \/ \E r \in Relays : relayParticipantNodes(r)
    \/ \E r \in Relays : relayRetryEncryptDone(r)
    \/ \E r \in Relays : sendNodeOk(r)
    \/ \E r \in Relays : sendNodeFail(r)

Spec == Init /\ [][Next]_vars

-----------------------------------------------------------------------------
(* Properties.                                                             *)

(* The relays whose stanza reached sendNode and was accepted: the         *)
(* successful calls.                                                       *)
Sent(r) == relay[r].pc = "done"

SentStanza(r) == relay[r].stanza[1]

SkmsgCount(stanza) ==
    Cardinality({ i \in DOMAIN EncNodes(stanza) : EncNodes(stanza)[i].attrs.type = "skmsg" })

SenderKeyDestination(r) == isGroup(relay[r]) \/ isStatus(relay[r])

(* C1, as stated: the stanza of every successful relayMessage call,        *)
(* retry-resends included, has exactly one <enc type=skmsg> if the         *)
(* destination is a group or status@broadcast, and none otherwise.         *)
C1_SkmsgIffGroupOrStatus ==
    \A r \in Relays :
        Sent(r) => SkmsgCount(SentStanza(r)) = (IF SenderKeyDestination(r) THEN 1 ELSE 0)

(* C1, amended: the stanza of every successful relayMessage call has       *)
(* exactly one <enc type=skmsg> if the destination is a group or           *)
(* status@broadcast and the call carries no participant, and none          *)
(* otherwise (a retry-resend carries the pairwise <enc> of lines 913-921   *)
(* instead).                                                               *)
C1_SkmsgIffGroupOrStatusNoRetry ==
    \A r \in Relays :
        Sent(r) => SkmsgCount(SentStanza(r)) =
                      (IF SenderKeyDestination(r) /\ ~isRetryResend(relay[r]) THEN 1 ELSE 0)

(* A group relay and a group retry-resend have both been sent. *)
C1_Witness ==
    \E r, q \in Relays :
        /\ Sent(r) /\ isGroup(relay[r]) /\ ~isRetryResend(relay[r])
        /\ SkmsgCount(SentStanza(r)) = 1
        /\ Sent(q) /\ isGroup(relay[q]) /\ isRetryResend(relay[q])
        /\ SkmsgCount(SentStanza(q)) = 0

(* The wire JIDs of the devices resolved for a relay. *)
ResolvedJids(r) == { relay[r].devices[i].jid : i \in DOMAIN relay[r].devices }

(* The step in which the stanza of relay r is sent and its transaction     *)
(* commits.                                                                *)
Commits(r) == relay[r].pc = "sendNode" /\ relay'[r].pc = "done"

(* C2: for any group relay, every jid of a <to> node under <participants>  *)
(* of the sent stanza is one of the devices resolved for that relay and,   *)
(* when the relay's transaction has committed, a key of                    *)
(* sender-key-memory[groupJid].                                            *)
C2_ParticipantsResolvedAndRecorded ==
    [][\A r \in Relays :
         (isGroup(relay[r]) /\ Commits(r)) =>
             /\ ToJids(SentStanza(r)) \subseteq ResolvedJids(r)
             /\ ToJids(SentStanza(r)) \subseteq keys'.senderKeyMemory[relay[r].jid]]_vars

(* C2 without the retry-resends: it is the group relay with a participant  *)
(* that sends a <to> it does not record.                                   *)
C2_NoRetry ==
    [][\A r \in Relays :
         (isGroup(relay[r]) /\ ~isRetryResend(relay[r]) /\ Commits(r)) =>
             /\ ToJids(SentStanza(r)) \subseteq ResolvedJids(r)
             /\ ToJids(SentStanza(r)) \subseteq keys'.senderKeyMemory[relay[r].jid]]_vars

(* The signalRepository.encryptMessage invocations in progress: those of   *)
(* the fan-outs (lines 582, 589) and those of retry-resends to a group     *)
(* (line 908), each with the jid it encrypts for.                          *)
InProgress ==
    UNION { { [relay |-> r, at |-> i, jid |-> relay[r].recipients[i]] :
                i \in { k \in DOMAIN relay[r].enc : relay[r].enc[k] = "run" } } :
            r \in Relays }
    \cup { [relay |-> r, at |-> 0, jid |-> relay[r].participant[1].jid] :
             r \in { q \in Relays : relay[q].pc = "retryEncrypt" } }

(* C3: with compatV6GroupSend = false, no two encryptMessage invocations   *)
(* for the same jid are in progress at the same time, in any interleaving  *)
(* of concurrent relayMessage calls, retry-resends included.               *)
C3_NoOverlappingEncrypt ==
    ~compatV6GroupSend =>
        \A a, b \in InProgress : a.jid = b.jid => a = b

(* C3 for the invocations made through createParticipantNodes alone. *)
C3_FanOutSerialized ==
    ~compatV6GroupSend =>
        \A a, b \in { c \in InProgress : c.at > 0 } : a.jid = b.jid => a = b

HasSession(r, jid) == jidToSignalProtocolAddress(jid) \in DOMAIN TxSessions(r)

(* C4: with compatV6GroupSend = false, once assertSessions has returned    *)
(* without error every jid of its input has a Signal session in the        *)
(* keystore, also a PN jid without stored LID mapping, and no relay is     *)
(* inside encryptMessage for a jid that has none.                          *)
C4_SessionBeforeEncrypt ==
    ~compatV6GroupSend =>
        \A r \in Relays :
            /\ relay[r].pc = "createParticipantNodes" =>
                   \A i \in DOMAIN relay[r].recipients : HasSession(r, relay[r].recipients[i])
            /\ relay[r].pc = "encrypting" =>
                   \A i \in DOMAIN relay[r].enc :
                       relay[r].enc[i] = "run" => HasSession(r, relay[r].recipients[i])

(* The part of C4 about PN jids without stored LID mapping: in strict mode *)
(* such a recipient has a session once assertSessions has returned.        *)
C4_UnmappedPnHasSession ==
    ~compatV6GroupSend =>
        \A r \in Relays :
            relay[r].pc = "createParticipantNodes" =>
                \A i \in DOMAIN relay[r].recipients :
                    (/\ isPnUser(relay[r].recipients[i])
                     /\ PnStoreKey(relay[r].recipients[i].user) \notin DOMAIN TxLidMapping(r)
                     /\ PnCacheKey(relay[r].recipients[i].user) \notin DOMAIN mappingCache)
                    => HasSession(r, relay[r].recipients[i])

(* The step in which sendNode rejects for relay r. *)
SendRejects(r) == relay[r].pc = "sendNode" /\ relay'[r].pc = "failed"

(* C5: if sendNode rejects, the call rejects and none of the keystore      *)
(* writes of that relay is committed (the sender-key-memory update         *)
(* included): the keystore is after the failed call what it was before,    *)
(* and it changes only where a relay's stanza is sent.                     *)
C5_SendFailureCommitsNothing ==
    [][/\ \A r \in Relays : SendRejects(r) => keys' = keys
       /\ keys' # keys => \E r \in Relays : Commits(r)]_vars

(* sendNode has rejected for a group relay that had marked devices in its  *)
(* sender-key map, and the group's sender-key-memory is still empty.       *)
C5_Witness ==
    \E r \in Relays :
        /\ relay[r].pc = "failed"
        /\ relay[r].stanza # <<>>
        /\ isGroup(relay[r]) /\ ~isRetryResend(relay[r])
        /\ relay[r].senderKeyMap # {}
        /\ keys.senderKeyMemory[relay[r].jid] = {}

OneToOne(r) == relay[r].jid.server \in {S_WHATSAPP_NET, LidServer}

(* C6: for any 1:1 relay (destination on s.whatsapp.net or lid, with or    *)
(* without participant), no <to> node of the sent stanza has the jid of    *)
(* the sending device itself (creds.me.id or creds.me.lid).                *)
C6_NoEnvelopeToSender ==
    \A r \in Relays :
        (Sent(r) /\ OneToOne(r)) => ToJids(SentStanza(r)) \cap {meId, meLid} = {}

(* A 1:1 stanza with <to> nodes has been sent by a relay whose resolved    *)
(* devices included the sending device.                                    *)
C6_Witness ==
    \E r \in Relays :
        /\ Sent(r) /\ OneToOne(r)
        /\ ResolvedJids(r) \cap {meId, meLid} # {}
        /\ ToJids(SentStanza(r)) # {}

HasDeviceIdentity(stanza) ==
    \E i \in DOMAIN stanza.content : stanza.content[i].tag = "device-identity"

(* Some pairwise encryption made for the stanza of relay r returned pkmsg. *)
PkmsgReturned(r) ==
    \/ \E i \in DOMAIN relay[r].enc : relay[r].enc[i] = "pkmsg"
    \/ relay[r].retryEnc = "pkmsg"

(* C7: a sent 1:1, group, status or peer stanza has a device-identity      *)
(* child if and only if some pairwise encryption made for it returned      *)
(* pkmsg or the call is a retry-resend.                                    *)
C7_DeviceIdentityIffPkmsgOrRetry ==
    \A r \in Relays :
        (Sent(r) /\ ~isNewsletter(relay[r])) =>
            (HasDeviceIdentity(SentStanza(r)) <=> (PkmsgReturned(r) \/ isRetryResend(relay[r])))

(* A stanza that is no retry-resend has been sent with a device-identity   *)
(* after an encryption returned pkmsg, and another one without it after    *)
(* encryptions that all returned msg.                                      *)
C7_Witness ==
    \E r, q \in Relays :
        /\ Sent(r) /\ ~isRetryResend(relay[r]) /\ PkmsgReturned(r)
        /\ HasDeviceIdentity(SentStanza(r))
        /\ Sent(q) /\ ~isRetryResend(relay[q]) /\ ~isNewsletter(relay[q])
        /\ relay[q].enc # <<>> /\ ~PkmsgReturned(q)
        /\ ~HasDeviceIdentity(SentStanza(q))

EncTypes == {"msg", "pkmsg", "skmsg"}

(* C8: every <enc> node of a sent stanza has v = "2" and a type among msg, *)
(* pkmsg and skmsg, and carries a count attribute if and only if the relay *)
(* is a retry-resend; so for the <enc> of a 1:1 retry-resend and for every *)
(* <enc> of a group retry-resend stanza.                                   *)
C8_EncAttributes ==
    \A r \in Relays :
        Sent(r) =>
            \A i \in DOMAIN EncNodes(SentStanza(r)) :
                LET attrs == EncNodes(SentStanza(r))[i].attrs
                IN /\ attrs.v = "2"
                   /\ attrs.type \in EncTypes
                   /\ ("count" \in DOMAIN attrs) <=> isRetryResend(relay[r])

(* The part of C8 that every sent <enc> satisfies: version, type, and no   *)
(* count outside retry-resends.                                            *)
C8_VersionTypeNoStrayCount ==
    \A r \in Relays :
        Sent(r) =>
            \A i \in DOMAIN EncNodes(SentStanza(r)) :
                LET attrs == EncNodes(SentStanza(r))[i].attrs
                IN /\ attrs.v = "2"
                   /\ attrs.type \in EncTypes
                   /\ ("count" \in DOMAIN attrs) => isRetryResend(relay[r])

(* The devices the SKDM of relay r is pairwise-encrypted to, once its      *)
(* fan-out has started.                                                    *)
SkdmEncryptedTo(r) == { relay[r].recipients[i] : i \in DOMAIN relay[r].enc }

GroupFanOutStarted(r) ==
    isGroup(relay[r]) /\ ~isRetryResend(relay[r]) /\ relay[r].enc # <<>>

(* C9: in a group relay without participant, with compatV6GroupSend =      *)
(* false the SKDM is pairwise-encrypted only to resolved devices that were *)
(* absent from sender-key-memory[groupJid] when the relay read it; with    *)
(* compatV6GroupSend = true it is encrypted to all resolved devices.       *)
C9_SkdmRecipients ==
    \A r \in Relays :
        GroupFanOutStarted(r) =>
            IF compatV6GroupSend
            THEN SkdmEncryptedTo(r) = ResolvedJids(r)
            ELSE SkdmEncryptedTo(r) \subseteq ResolvedJids(r) \ relay[r].readSenderKeyMap

(* The compatibility half of C9, and what strict mode does instead: in     *)
(* either mode the SKDM goes to all resolved devices.                      *)
C9_SkdmToAllDevices ==
    \A r \in Relays : GroupFanOutStarted(r) => SkdmEncryptedTo(r) = ResolvedJids(r)

(* C10: in every reachable state each wire JID recorded in                 *)
(* sender-key-memory[groupJid] is a device for which an SKDM <to> envelope *)
(* was in a stanza actually sent; a device whose SKDM encryption failed    *)
(* and was dropped from the fan-out is never recorded.                     *)
C10_MemoryOnlyOfSentSkdm ==
    keys.senderKeyMemory[groupJid] \subseteq skdmSent[groupJid]

(* C10 with compatV6GroupSend = false, where a failed encryption rejects   *)
(* the relay instead of being dropped.                                     *)
C10_StrictMemoryOnlyOfSentSkdm ==
    ~compatV6GroupSend => keys.senderKeyMemory[groupJid] \subseteq skdmSent[groupJid]

(* The stanza of relay r reached sendNode (which resolved or rejected). *)
ReachedSendNode(r) == relay[r].stanza # <<>>

Rejected(r) == relay[r].pc = "failed"

FanOutFailed(r) == \E i \in DOMAIN relay[r].enc : relay[r].enc[i] = "fail"

Succeeded(r) ==
    { relay[r].recipients[i] : i \in { k \in DOMAIN relay[r].enc : relay[r].enc[k] \in {"msg", "pkmsg"} } }

FanOutOutcome(r) ==
    IF compatV6GroupSend
    THEN /\ Rejected(r) => ReachedSendNode(r)
         /\ ReachedSendNode(r) => ToJids(SentStanza(r)) = Succeeded(r)
    ELSE Rejected(r) /\ ~ReachedSendNode(r)

(* C12: when encryptMessage fails for a recipient device during the        *)
(* fan-out, in strict mode relayMessage rejects and no stanza is sent; in  *)
(* compatibility mode the stanza is sent with a <to> node for exactly the  *)
(* recipients whose encryption succeeded.  (A peer stanza has no <to>      *)
(* nodes and is left out.)                                                 *)
C12_FanOutFailure ==
    \A r \in Relays : (FanOutFailed(r) /\ ~isPeer(relay[r])) => FanOutOutcome(r)

(* C12 for the relays other than retry-resends to a group. *)
C12_FanOutFailureNoGroupRetry ==
    \A r \in Relays :
        (FanOutFailed(r) /\ ~isPeer(relay[r]) /\ ~(isGroup(relay[r]) /\ isRetryResend(relay[r])))
            => FanOutOutcome(r)

-----------------------------------------------------------------------------
(* The LID mapping store on its own: calls of storeLIDPNMappings,          *)
(* getLIDForPN and getPNForLID in any order, on a cache whose entries may  *)
(* expire.  The relay's variables stay as constructed.                     *)

(* Pairs per storeLIDPNMappings call. *)
MaxPairs == 2

StorePnUsers == {"a", "b"}

StoreLidUsers == {"aL", "bL"}

StoreJids ==
    { jidEncode(u, S_WHATSAPP_NET, 0) : u \in StorePnUsers }
    \cup { jidEncode(u, LidServer, 0) : u \in StoreLidUsers }

(* The arguments of storeLIDPNMappings: pairs in either order, also pairs  *)
(* of two PNs or two LIDs.                                                 *)
(* The jids looked up: those, and the same users with a device suffix. *)
LookupJids == { jidEncode(j.user, j.server, d) : j \in StoreJids, d \in 0..2 }

StorePairs == { [lid |-> x, pn |-> y] : x \in StoreJids, y \in StoreJids }

StoreCalls == UNION { [1..n -> StorePairs] : n \in 1..MaxPairs }

LidInit ==
    /\ media = NoMedia
    /\ compatV6GroupSend = TRUE
    /\ keys = [session |-> EstablishedSessions,
               senderKeyMemory |-> [g \in SenderKeyGroups |-> {}],
               lidMapping |-> <<>>,
               deviceList |-> {}]
    /\ userDevicesCache = <<>>
    /\ peerSessionsCache = <<>>
    /\ mappingCache = <<>>
    /\ groupMetadataCache = <<>>
    /\ encryptionMutex = {}
    /\ relay = [r \in Relays |-> IdleRelay]
    /\ skdmSent = [g \in SenderKeyGroups |-> {}]

LidUnchanged ==
    UNCHANGED <<media, compatV6GroupSend, userDevicesCache, peerSessionsCache,
                groupMetadataCache, encryptionMutex, relay, skdmSent>>

(* A call of storeLIDPNMappings outside any other transaction: its own     *)
(* transaction (lines 63-75) commits the writes.                           *)
lidStore ==
    /\ \E pairs \in StoreCalls :
         LET res == storeLIDPNMappings(pairs, mappingCache, keys.lidMapping)
         IN /\ mappingCache' = res.cache
            /\ keys' = [keys EXCEPT !.lidMapping = Overlay(@, res.writes)]
    /\ LidUnchanged

lidGetLIDForPN ==
    /\ \E pn \in LookupJids :
         mappingCache' = getLIDForPN(pn, mappingCache, keys.lidMapping).cache
    /\ UNCHANGED keys
    /\ LidUnchanged

lidGetPNForLID ==
    /\ \E lid \in StoreJids :
         mappingCache' = getPNForLID(lid, mappingCache, keys.lidMapping).cache
    /\ UNCHANGED keys
    /\ LidUnchanged

(* An entry of the LRU cache expires (ttl of 7 days, line 8). *)
lidCacheExpires ==
    /\ \E k \in DOMAIN mappingCache :
         mappingCache' = [j \in DOMAIN mappingCache \ {k} |-> mappingCache[j]]
    /\ UNCHANGED keys
    /\ LidUnchanged

LidNext == lidStore \/ lidGetLIDForPN \/ lidGetPNForLID \/ lidCacheExpires

LidSpec == LidInit /\ [][LidNext]_vars

(* The mapping as the store's readers see it. *)
PNForLID(x) == getPNForLID(jidEncode(x, LidServer, 0), mappingCache, keys.lidMapping)

LIDForPN(pn, cache) == getLIDForPN(pn, cache, keys.lidMapping)

(* C13: for every LID user x, after any sequence of storeLIDPNMappings     *)
(* calls, when getPNForLID(x) returns p and getLIDForPN(p) returns a LID,  *)
(* that LID is x: getLIDForPN(getPNForLID(x)) = x.                         *)
C13_RoundTrip ==
    \A x \in StoreLidUsers :
        LET back == PNForLID(x)
        IN back.pn # <<>> =>
             LET forth == LIDForPN(back.pn[1], back.cache)
             IN forth.lid # <<>> => forth.lid[1].user = x

(* The stored pairs, by direction. *)
StoredForward ==
    { <<pn, keys.lidMapping[PnStoreKey(pn)]>> :
        pn \in { u \in StorePnUsers : PnStoreKey(u) \in DOMAIN keys.lidMapping } }

StoredReverse ==
    { <<keys.lidMapping[ReverseStoreKey(l)], l>> :
        l \in { u \in StoreLidUsers : ReverseStoreKey(u) \in DOMAIN keys.lidMapping } }

(* C14: the stored mapping is injective in both directions, and the entry  *)
(* lidUser_reverse -> pnUser exists exactly when pnUser -> lidUser exists. *)
C14_InjectiveAndMirrored ==
    /\ \A e, f \in StoredForward : e[2] = f[2] => e[1] = f[1]
    /\ \A e, f \in StoredReverse : e[1] = f[1] => e[2] = f[2]
    /\ StoredForward = StoredReverse

(* A relay without participant to a group whose metadata says addressing   *)
(* mode lid, past its device resolution.                                   *)
LidGroupFanOut(r) ==
    /\ isGroup(relay[r])
    /\ ~isRetryResend(relay[r])
    /\ relay[r].groupData # <<>>
    /\ relay[r].groupData[1].addressingMode = "lid"
    /\ relay[r].pc \notin {"idle", "groupData", "getUSyncDevices", "failed"}

(* C15: in a non-retry relay to a lid-addressed group every wire JID that  *)
(* receives an SKDM envelope, and every key written to sender-key-memory,  *)
(* has server lid, whichever source supplied the participants and also     *)
(* when a PN participant has no stored LID mapping.                        *)
C15_LidGroupWireJids ==
    \A r \in Relays : LidGroupFanOut(r) =>
        /\ \A j \in Range(senderKeyJids(relay[r].devices)) : j.server = LidServer
        /\ Sent(r) => \A j \in ToJids(SentStanza(r)) : j.server = LidServer
        /\ groupJid \in DOMAIN relay[r].tx.senderKeyMemory =>
             \A j \in relay[r].tx.senderKeyMemory[groupJid] : j.server = LidServer

(* The sender's own user, under either identity. *)
OwnUser(jid) == jid.user \in {meId.user, meLid.user}

Routing(rec, attrs, own) ==
    IF isRetryResend(rec)
    THEN IF isGroup(rec)
         THEN /\ attrs.to = rec.jid
              /\ "participant" \in DOMAIN attrs
              /\ attrs.participant = rec.participant[1].jid
         ELSE /\ attrs.to = rec.participant[1].jid
              /\ "recipient" \in DOMAIN attrs <=> own
              /\ "recipient" \in DOMAIN attrs => attrs.recipient = rec.jid
    ELSE /\ attrs.to = rec.jid
         /\ "participant" \notin DOMAIN attrs
         /\ "recipient" \notin DOMAIN attrs

(* C16: a retry-resend stanza to a group has to = groupJid and participant *)
(* = participant.jid; to another destination it has to = participant.jid,  *)
(* and recipient = destinationJid exactly when participant.jid is the      *)
(* sender's own user; a stanza without participant has to = destinationJid *)
(* and neither participant nor recipient.                                  *)
C16_Routing ==
    \A r \in Relays : ReachedSendNode(r) =>
        Routing(relay[r], SentStanza(r).attrs,
                isRetryResend(relay[r]) /\ OwnUser(relay[r].participant[1].jid))

(* The same with the sender's own user taken as the user of meId only. *)
C16_RoutingByPhoneIdentity ==
    \A r \in Relays : ReachedSendNode(r) =>
        Routing(relay[r], SentStanza(r).attrs,
                isRetryResend(relay[r])
                /\ areJidsSameUser(relay[r].participant[1].jid, meId))

(* The invocations of signalRepository.encryptMessage by relay r so far:   *)
(* those of createParticipantNodes and the one of line 908.                *)
EncryptCalls(r) ==
    Cardinality({ i \in DOMAIN relay[r].enc : relay[r].enc[i] # "wait" })
    + (IF relay[r].pc = "retryEncrypt" \/ relay[r].retryEnc # "" THEN 1 ELSE 0)

EncryptedJids(r) ==
    { relay[r].recipients[i] : i \in { k \in DOMAIN relay[r].enc : relay[r].enc[k] # "wait" } }
    \cup (IF relay[r].pc = "retryEncrypt" \/ relay[r].retryEnc # ""
          THEN {relay[r].participant[1].jid} ELSE {})

RetryEncryptsOnce(r) ==
    /\ EncryptedJids(r) \subseteq {relay[r].participant[1].jid}
    /\ relay[r].tx.senderKeyMemory = <<>>
    /\ Sent(r) => EncryptCalls(r) = 1

(* C17: a retry-resend relay, 1:1 or group, invokes encryptMessage exactly *)
(* once in total, with jid = participant.jid; no other device receives a   *)
(* pairwise encryption and nothing is written to sender-key-memory.        *)
C17_RetryEncryptsOnce ==
    \A r \in Relays : isRetryResend(relay[r]) => RetryEncryptsOnce(r)

(* The same for the retry-resends outside groups whose participant is not  *)
(* the sending device itself.                                              *)
C17_OneToOneRetryEncryptsOnce ==
    \A r \in Relays :
        (isRetryResend(relay[r]) /\ ~isGroup(relay[r])
         /\ ~isExactSenderDevice(relay[r].participant[1].jid)) => RetryEncryptsOnce(r)

HasParticipantsWrapper(stanza) ==
    \E i \in DOMAIN stanza.content : stanza.content[i].tag = "participants"

(* C18: the stanza of a retry-resend to one participant of a group has, as *)
(* its only encrypted payload, a single <enc> that is a direct child of    *)
(* <message>, of type msg or pkmsg, with count = participant.count; it has *)
(* no <participants> child and no skmsg.                                   *)
C18_GroupRetryStanza ==
    \A r \in Relays :
        (ReachedSendNode(r) /\ isGroup(relay[r]) /\ isRetryResend(relay[r])) =>
            LET stanza == SentStanza(r)
            IN /\ Len(TopEncNodes(stanza)) = 1
               /\ Len(EncNodes(stanza)) = 1
               /\ TopEncNodes(stanza)[1].attrs.type \in {"msg", "pkmsg"}
               /\ "count" \in DOMAIN TopEncNodes(stanza)[1].attrs
               /\ TopEncNodes(stanza)[1].attrs.count = ToString(relay[r].participant[1].count)
               /\ ~HasParticipantsWrapper(stanza)
               /\ SkmsgCount(stanza) = 0

(* What does hold of that stanza: one direct-child <enc> with the count    *)
(* and no skmsg.                                                           *)
C18_GroupRetryDirectEnc ==
    \A r \in Relays :
        (ReachedSendNode(r) /\ isGroup(relay[r]) /\ isRetryResend(relay[r])) =>
            LET stanza == SentStanza(r)
            IN /\ Len(TopEncNodes(stanza)) = 1
               /\ TopEncNodes(stanza)[1].attrs.type \in {"msg", "pkmsg"}
               /\ "count" \in DOMAIN TopEncNodes(stanza)[1].attrs
               /\ TopEncNodes(stanza)[1].attrs.count = ToString(relay[r].participant[1].count)
               /\ SkmsgCount(stanza) = 0

PeerFraming(stanza) ==
    /\ ~HasParticipantsWrapper(stanza)
    /\ "category" \in DOMAIN stanza.attrs /\ stanza.attrs.category = "peer"
    /\ "push_priority" \in DOMAIN stanza.attrs /\ stanza.attrs.push_priority = "high_force"
    /\ \E i \in DOMAIN stanza.content :
         /\ stanza.content[i].tag = "meta"
         /\ stanza.content[i].attrs = [appdata |-> "default"]

(* C19: a relay with category = peer, as sendPeerDataOperationMessage       *)
(* issues it to the own user, sends a stanza with no <participants> child  *)
(* and exactly one <enc> that is a direct child of <message>, with         *)
(* category = peer, push_priority = high_force and <meta appdata=default>. *)
C19_PeerStanza ==
    \A r \in Relays : (ReachedSendNode(r) /\ isPeer(relay[r])) =>
        /\ PeerFraming(SentStanza(r))
        /\ Len(EncNodes(SentStanza(r))) = 1

(* What the code does: the one <enc> is there when the encryption for the  *)
(* own primary device returned; when it failed and the failure was dropped *)
(* (compatV6GroupSend), the stanza has the framing and no <enc>.           *)
C19_PeerStanzaEncIfEncrypted ==
    \A r \in Relays : (ReachedSendNode(r) /\ isPeer(relay[r])) =>
        /\ PeerFraming(SentStanza(r))
        /\ Len(EncNodes(SentStanza(r))) = (IF FanOutFailed(r) THEN 0 ELSE 1)
        /\ FanOutFailed(r) => compatV6GroupSend

StatusFanOut(r) ==
    ReachedSendNode(r) /\ isStatus(relay[r]) /\ ~isRetryResend(relay[r])

(* The wire JIDs of the devices resolved for the jids of statusJidList. *)
StatusListDevices(r) ==
    { senderKeyJids(relay[r].devices)[i] :
        i \in { k \in DOMAIN relay[r].devices :
                  relay[r].devices[k].user \in
                      { relay[r].statusJidList[n].user : n \in DOMAIN relay[r].statusJidList } } }

(* C20: a non-retry relay to status@broadcast with statusJidList = L sends *)
(* a stanza with to = status@broadcast that has an SKDM <to> envelope for  *)
(* every device resolved for every jid of L, and consults neither the      *)
(* user's cachedGroupMetadata, nor the internal group cache, nor a         *)
(* groupMetadata fetch.                                                    *)
C20_StatusFanOut ==
    \A r \in Relays : StatusFanOut(r) =>
        /\ SentStanza(r).attrs.to = statusJid
        /\ StatusListDevices(r) \subseteq ToJids(SentStanza(r))
        /\ relay[r].consulted = {}

(* C20 with the envelopes the code sends: one for every such device whose  *)
(* pairwise encryption returned, which without compatV6GroupSend is every  *)
(* one of them.                                                            *)
C20_StatusFanOutOfEncrypted ==
    \A r \in Relays : StatusFanOut(r) =>
        /\ SentStanza(r).attrs.to = statusJid
        /\ StatusListDevices(r) \cap Succeeded(r) \subseteq ToJids(SentStanza(r))
        /\ ~compatV6GroupSend => StatusListDevices(r) \subseteq ToJids(SentStanza(r))
        /\ relay[r].consulted = {}

(* A status stanza was sent with envelopes for all devices of the list,    *)
(* and another to a list of two users with envelopes for those of its      *)
(* devices that could be encrypted to.                                     *)
C20_Witness ==
    /\ \E r \in Relays :
          /\ Sent(r) /\ StatusFanOut(r)
          /\ Cardinality(StatusListDevices(r)) = 2
          /\ StatusListDevices(r) \subseteq ToJids(SentStanza(r))
    /\ \E r \in Relays :
          /\ Sent(r) /\ StatusFanOut(r)
          /\ Cardinality({ j.user : j \in StatusListDevices(r) }) = 2
          /\ StatusListDevices(r) \cap ToJids(SentStanza(r)) # {}

(* A relay that has acted on nothing but its own stanza. *)
NoFanOutState(rec) ==
    /\ rec.devices = <<>>
    /\ rec.recipients = <<>>
    /\ rec.enc = <<>>
    /\ rec.retryEnc = ""
    /\ ~rec.assertFailed
    /\ rec.consulted = {}
    /\ rec.groupData = <<>>
    /\ rec.tx = EmptyTx

NewsletterStarted(r) == isNewsletter(relay[r]) /\ relay[r].pc # "idle"

(* C21: a relay to a newsletter sends exactly one stanza, whose only child *)
(* is a <plaintext> node, with attributes to, id and type; it resolves no  *)
(* devices, asserts no sessions, encrypts nothing pairwise or for a group, *)
(* and neither reads nor writes sender-key-memory.                         *)
C21_NewsletterPlaintextOnly ==
    /\ [](\A r \in Relays : NewsletterStarted(r) =>
            /\ relay[r].pc \in {"sendNode", "done", "failed"}
            /\ ReachedSendNode(r)
            /\ SentStanza(r).content = << Node("plaintext", EmptyAttrs, <<>>) >>
            /\ DOMAIN SentStanza(r).attrs = {"to", "id", "type"}
            /\ SentStanza(r).attrs.to = relay[r].jid
            /\ NoFanOutState(relay[r]))
    /\ [][\A r \in Relays :
            (isNewsletter(relay'[r]) /\ relay'[r] # relay[r]) =>
                /\ UNCHANGED <<userDevicesCache, peerSessionsCache, mappingCache,
                               groupMetadataCache, encryptionMutex>>
                /\ keys'.session = keys.session
                /\ keys'.senderKeyMemory = keys.senderKeyMemory
                /\ relay[r].pc = "sendNode" => relay'[r].pc \in {"done", "failed"}]_vars

(* A newsletter stanza was sent. *)
C21_Witness ==
    \E r \in Relays : Sent(r) /\ isNewsletter(relay[r])
                      /\ TopEncNodes(SentStanza(r)) = <<>>

(* A 1:1 relay without participant whose stanza is built from at least    *)
(* one recipient.                                                          *)
OneToOneFanOut(r) ==
    /\ ReachedSendNode(r)
    /\ OneToOne(r)
    /\ ~isRetryResend(relay[r])
    /\ relay[r].recipients # <<>>

(* C22: every 1:1 stanza without participant that has at least one         *)
(* recipient carries phash = generateParticipantHashV2 of exactly the       *)
(* recipient jids that appear as <to> nodes, and no addressing_mode.       *)
C22_PhashOfRecipients ==
    \A r \in Relays : OneToOneFanOut(r) =>
        /\ "phash" \in DOMAIN SentStanza(r).attrs
        /\ SentStanza(r).attrs.phash
             = [v |-> "2", of |-> ToJids(SentStanza(r))]
        /\ "addressing_mode" \notin DOMAIN SentStanza(r).attrs

(* What holds of those stanzas: the hash is computed into extraAttrs, and  *)
(* the stanza has neither phash nor addressing_mode.                       *)
C22_PhashComputedNotSent ==
    \A r \in Relays : OneToOneFanOut(r) =>
        /\ "phash" \in DOMAIN extraAttrsAfterFanOut(relay[r])
        /\ "phash" \notin DOMAIN SentStanza(r).attrs
        /\ \A i \in DOMAIN EncNodes(SentStanza(r)) :
               "phash" \notin DOMAIN EncNodes(SentStanza(r))[i].attrs
        /\ "addressing_mode" \notin DOMAIN SentStanza(r).attrs

(* A 1:1 relay whose recipients have been determined. *)
OneToOneRecipients(r) == OneToOne(r) /\ relay[r].recipients # <<>>

(* C23: in a 1:1 relay every recipient device is in exactly one of         *)
(* meRecipients (its user is the sender's PN user or LID user) and         *)
(* otherRecipients; each device of the first is encrypted the              *)
(* deviceSentMessage wrapper with destinationJid = the destination, each   *)
(* device of the second the original message.                              *)
C23_DsmForOwnDevices ==
    \A r \in Relays : OneToOneRecipients(r) =>
        LET rec == relay[r]
            me == Range(meRecipients(rec.devices))
            other == Range(otherRecipients(rec.devices))
        IN /\ me \cap other = {}
           /\ me \cup other = Range(rec.recipients)
           /\ \A j \in Range(rec.recipients) : j \in me <=> isOwnUser(j)
           /\ \A i \in DOMAIN rec.recipients :
                rec.plaintext[i] = IF isOwnUser(rec.recipients[i])
                                   THEN [kind |-> "deviceSentMessage",
                                         destinationJid |-> <<rec.jid>>]
                                   ELSE [kind |-> "message", destinationJid |-> <<>>]

(* A 1:1 stanza was sent to own and to peer devices. *)
C23_Witness ==
    \E r \in Relays :
        /\ Sent(r) /\ OneToOne(r)
        /\ \E i, k \in DOMAIN relay[r].recipients :
             /\ relay[r].plaintext[i].kind = "deviceSentMessage"
             /\ relay[r].plaintext[k].kind = "message"
             /\ {relay[r].recipients[i], relay[r].recipients[k]} \subseteq ToJids(SentStanza(r))

RecentEntry(r) == [jid |-> relay[r].jid, id |-> "msgId", message |-> message]

(* C24: with message retention enabled every successful relayMessage call  *)
(* without participant, for every kind of destination, newsletter          *)
(* included, adds (destJid, messageId) -> message to the recent-message    *)
(* cache; a retry-resend or a relay that fails adds nothing.               *)
C24_RecentMessageCached ==
    \A r \in Relays :
        /\ (Sent(r) /\ ~isRetryResend(relay[r])) => relay[r].recentMessage = <<RecentEntry(r)>>
        /\ (isRetryResend(relay[r]) \/ ~Sent(r)) => relay[r].recentMessage = <<>>

(* The same for the destinations other than a newsletter, whose relay adds *)
(* nothing.                                                                *)
C24_RecentMessageCachedButNewsletter ==
    \A r \in Relays :
        /\ (Sent(r) /\ ~isRetryResend(relay[r]) /\ ~isNewsletter(relay[r]))
             => relay[r].recentMessage = <<RecentEntry(r)>>
        /\ (isRetryResend(relay[r]) \/ ~Sent(r) \/ isNewsletter(relay[r]))
             => relay[r].recentMessage = <<>>

(* C25: a group relay never uses cached group metadata older than five   *)
(* minutes: an entry of the user's cachedGroupMetadata, stamped with       *)
(* _cachedAt or not, or of the internal cache is used only when its age is *)
(* at most five minutes, otherwise the metadata is fetched; when that      *)
(* fetch fails the relay fails and nothing is sent.                        *)
C25_NoStaleGroupMetadata ==
    \A r \in Relays : isGroup(relay[r]) =>
        /\ relay[r].groupData # <<>> => relay[r].groupDataAge \in {"fresh", "fetched"}
        /\ ("fetch" \in relay[r].consulted /\ relay[r].groupData = <<>>)
             => (Rejected(r) /\ ~ReachedSendNode(r))

(* The same of the entries whose age the code can see: those of the        *)
(* internal cache and the stamped ones of the user's cache.                *)
C25_NoStaleStampedMetadata ==
    \A r \in Relays : isGroup(relay[r]) =>
        /\ (relay[r].groupData # <<>> /\ relay[r].groupDataAge = "old")
             => relay[r].consulted = {"user"}
        /\ ("fetch" \in relay[r].consulted /\ relay[r].groupData = <<>>)
             => (Rejected(r) /\ ~ReachedSendNode(r))

(* C26: for every relay to a group whose ephemeral duration d is greater  *)
(* than 0 the sent stanza has expiration = d, whichever source supplied    *)
(* the metadata: the user's cache, the internal cache or the fetch.        *)
C26_ExpirationOfEphemeralGroup ==
    \A r \in Relays :
        (ReachedSendNode(r) /\ isGroup(relay[r])
         /\ ServerGroupMetadata.ephemeralDuration > 0) =>
            /\ "expiration" \in DOMAIN SentStanza(r).attrs
            /\ SentStanza(r).attrs.expiration = ToString(ServerGroupMetadata.ephemeralDuration)

(* The same when the metadata came from the user's cache or the fetch;     *)
(* with the internal cache's the stanza has no expiration.                 *)
C26_ExpirationUnlessInternalCache ==
    \A r \in Relays :
        (ReachedSendNode(r) /\ isGroup(relay[r])
         /\ ServerGroupMetadata.ephemeralDuration > 0) =>
            IF "internal" \in relay[r].consulted /\ "fetch" \notin relay[r].consulted
            THEN "expiration" \notin DOMAIN SentStanza(r).attrs
            ELSE /\ "expiration" \in DOMAIN SentStanza(r).attrs
                 /\ SentStanza(r).attrs.expiration
                      = ToString(ServerGroupMetadata.ephemeralDuration)


-----------------------------------------------------------------------------
(* The own-device step of the group fan-out on its own (lines 833-843),     *)
(* over every addressing mode, value of creds.me.lid and resolver answer.   *)

(* Longest resolver answer drawn. *)
MaxAdditional == 2

(* Devices a resolver answer is drawn from: the own primary device under   *)
(* either identity, an own companion, and the peer under either identity.  *)
AdditionalDevicePool ==
    { Device("me", 0, jidEncode("me", S_WHATSAPP_NET, 0)),
      Device("meL", 0, jidEncode("meL", LidServer, 0)),
      Device("me", 2, jidEncode("me", S_WHATSAPP_NET, 2)),
      Device(peerPn.user, 0, peerPn),
      Device(peerLid.user, 0, peerLid) }

AdditionalDeviceAnswers ==
    UNION { [1..n -> AdditionalDevicePool] : n \in 0..MaxAdditional }

(* Metadata of a group under either addressing mode. *)
GroupMetadataOfMode == { [ServerGroupMetadata EXCEPT !.addressingMode = am] : am \in {"pn", "lid"} }

(* Lines 833-843 of a group relay without participant: the resolver's      *)
(* answer is appended to the devices, then the own primary device.         *)
ownDeviceFanOut(r) ==
    /\ relay[r].pc = "idle"
    /\ \E groupData \in GroupMetadataOfMode, lid \in {<<>>, <<meLid>>},
          additionalDevices \in AdditionalDeviceAnswers :
         relay' = [relay EXCEPT ![r] =
                     [IdleRelay EXCEPT
                        !.pc = "assertSessions",
                        !.jid = groupJid,
                        !.meLid = lid,
                        !.groupData = <<groupData>>,
                        !.additionalAttributes = [addressing_mode |-> groupData.addressingMode],
                        !.devices = additionalDevices
                                    \o ownPrimaryDevice(additionalDevices, <<groupData>>, lid)]]
    /\ UNCHANGED <<media, compatV6GroupSend, keys, userDevicesCache, peerSessionsCache,
                   mappingCache, groupMetadataCache, encryptionMutex, skdmSent>>

OwnDeviceNext == \E r \in Relays : ownDeviceFanOut(r)

OwnDeviceSpec == LidInit /\ [][OwnDeviceNext]_vars

(* A non-retry group relay whose fan-out device list is complete. *)
GroupFanOutResolved(r) ==
    /\ relay[r].pc = "assertSessions"
    /\ isGroup(relay[r])
    /\ relay[r].participant = NoParticipant

(* The own primary device under the identity of the group's addressing     *)
(* mode; in a LID group without creds.me.lid the phone-number identity is  *)
(* the only one there is.                                                  *)
OwnPrimaryJid(rec) ==
    IF rec.groupData[1].addressingMode = "lid" /\ rec.meLid # <<>>
    THEN jidNormalizedUser(rec.meLid[1])
    ELSE jidNormalizedUser(meId)

HasOwnPrimaryDevice(rec) ==
    \E i \in DOMAIN rec.devices :
       /\ rec.devices[i].device = 0
       /\ rec.devices[i].jid = OwnPrimaryJid(rec)

(* C27: after the device resolution of a non-retry group relay the fan-out *)
(* device list holds the sender's own primary device (device 0) under the  *)
(* identity of the group's addressing mode, whatever the resolver returned *)
(* and whether creds.me.lid is present or not.                             *)
C27_OwnPrimaryDeviceInFanOut ==
    \A r \in Relays : GroupFanOutResolved(r) => HasOwnPrimaryDevice(relay[r])

(* What holds of C27: the own primary device is there whenever the         *)
(* identity of the addressing mode is known (a phone-number group, or a    *)
(* LID group with creds.me.lid).                                           *)
C27_OwnPrimaryDeviceWhenIdentityKnown ==
    \A r \in Relays :
       (/\ GroupFanOutResolved(r)
        /\ (relay[r].groupData[1].addressingMode = "lid" => relay[r].meLid # <<>>))
       => HasOwnPrimaryDevice(relay[r])

(* In a LID group without creds.me.lid line 840 adds nothing: the devices  *)
(* are the resolver's answer.                                              *)
C27_NothingAddedWithoutLid ==
    \A r \in Relays :
       (/\ GroupFanOutResolved(r)
        /\ relay[r].groupData[1].addressingMode = "lid"
        /\ relay[r].meLid = <<>>)
       => \A i \in DOMAIN relay[r].devices : relay[r].devices[i] \in AdditionalDevicePool

-----------------------------------------------------------------------------
(* getUSyncDevices called through the socket's interface (line 1290), with  *)
(* any list of jids and both flags, against a user-devices cache that       *)
(* earlier calls have filled and whose entries expire.                      *)

(* Longest list of jids passed. *)
MaxJids == 2

USyncJidPool ==
    { peerPn, peerLid, unmappedPn, jidEncode(peerPn.user, S_WHATSAPP_NET, 1) }

(* Lists of distinct jids of the pool. *)
USyncInputs ==
    { jids \in UNION { [1..n -> USyncJidPool] : n \in 0..MaxJids } :
        \A i, k \in DOMAIN jids : jids[i] = jids[k] => i = k }

(* One call, from start to return: the cache lookups, the query if any,    *)
(* the mappings and device lists stored outside any transaction, the       *)
(* cache update.  usync records the call with what it was given and what   *)
(* it returned.                                                            *)
usyncCall(r) ==
    /\ relay[r].pc = "idle"
    /\ \E jids \in USyncInputs, useCache \in BOOLEAN, ignoreZeroDevices \in BOOLEAN :
         \E res \in { getUSyncDevices(r, jids, useCache, ignoreZeroDevices, mappingCache) } :
            /\ relay' = [relay EXCEPT ![r].usync =
                           << [jids |-> jids,
                               useCache |-> useCache,
                               ignoreZeroDevices |-> ignoreZeroDevices,
                               cachedBefore |-> DOMAIN userDevicesCache,
                               lookedUp |-> res.lookedUp,
                               queries |-> res.queries,
                               deviceResults |-> res.deviceResults] >>]
            /\ userDevicesCache' = res.userDevicesCache
            /\ mappingCache' = res.mappingCache
            /\ keys' = [keys EXCEPT !.lidMapping = Overlay(@, res.lidMapping),
                                    !.deviceList = @ \cup res.deviceList]
    /\ UNCHANGED <<media, compatV6GroupSend, peerSessionsCache, groupMetadataCache,
                   encryptionMutex, skdmSent>>

(* An entry of the user-devices cache expires (TTL of five minutes). *)
userDevicesCacheExpires ==
    /\ \E u \in DOMAIN userDevicesCache :
         userDevicesCache' = [v \in DOMAIN userDevicesCache \ {u} |-> userDevicesCache[v]]
    /\ UNCHANGED <<media, compatV6GroupSend, keys, peerSessionsCache, mappingCache,
                   groupMetadataCache, encryptionMutex, relay, skdmSent>>

(* The calls are made one after the other; the first record keeps the     *)
(* last of them.                                                           *)
USyncNext == usyncCall(1) \/ userDevicesCacheExpires

USyncSpec == LidInit /\ [][USyncNext]_vars

(* The calls of getUSyncDevices on record. *)
USyncCalls == { relay[r].usync[1] : r \in { q \in Relays : relay[q].usync # <<>> } }

ExplicitInputs(o) == { j \in Range(o.jids) : j.device > 0 }

NonExplicitUsers(o) == { j.user : j \in Range(o.jids) \ ExplicitInputs(o) }

(* The non-explicit users the cache did not answer for. *)
MissedUsers(o) == { u \in NonExplicitUsers(o) : ~o.useCache \/ u \notin o.cachedBefore }

(* C28: a call of getUSyncDevices issues at most one USync query, for      *)
(* exactly the non-explicit-device users that missed the user-devices      *)
(* cache (all of them when useCache is false), and none when there is no   *)
(* such user; an input with an explicit device is returned verbatim, and   *)
(* only users of non-explicit inputs are looked up in the cache or queried.*)
C28_OneQueryForMissedUsers ==
    \A o \in USyncCalls :
       /\ Len(o.queries) <= 1
       /\ (o.queries = <<>>) <=> (MissedUsers(o) = {})
       /\ \A i \in DOMAIN o.queries :
             { j.user : j \in Range(o.queries[i]) } = MissedUsers(o)
       /\ \A j \in ExplicitInputs(o) :
             Device(j.user, j.device, j) \in Range(o.deviceResults)
       /\ o.lookedUp \subseteq NonExplicitUsers(o)
       /\ \A j \in ExplicitInputs(o) :
             j.user \notin NonExplicitUsers(o) =>
                { d \in Range(o.deviceResults) : d.user = j.user }
                   = { Device(j.user, k.device, k) : k \in { e \in ExplicitInputs(o) : e.user = j.user } }

(* A call with the cache on, given an explicit device and a user the       *)
(* cache, not empty, had no entry for: one query, for that user.           *)
C28_Witness ==
    \E o \in USyncCalls :
       /\ o.useCache
       /\ o.cachedBefore # {}
       /\ ExplicitInputs(o) # {}
       /\ MissedUsers(o) # {}
       /\ Len(o.queries) = 1

(* A call answered from the cache alone, without a query. *)
C28_WitnessNoQuery ==
    \E o \in USyncCalls :
       /\ NonExplicitUsers(o) # {}
       /\ o.queries = <<>>

(* C29: with ignoreZeroDevices = true the devices returned for the users   *)
(* of non-explicit inputs include no device 0, whether they came from a    *)
(* USync answer or from the user-devices cache.                            *)
C29_NoZeroDevice ==
    \A o \in USyncCalls :
       o.ignoreZeroDevices =>
          \A i \in DOMAIN o.deviceResults :
             o.deviceResults[i].user \in NonExplicitUsers(o) => o.deviceResults[i].device # 0

(* What holds of C29: no device 0 for the users the call queried. *)
C29_NoZeroDeviceFromQuery ==
    \A o \in USyncCalls :
       o.ignoreZeroDevices =>
          \A i \in DOMAIN o.deviceResults :
             o.deviceResults[i].user \in MissedUsers(o) => o.deviceResults[i].device # 0

-----------------------------------------------------------------------------
(* storeLIDPNMappings called twice with the same pairs, lookups and cache   *)
(* expiry in between.                                                       *)

(* One call of storeLIDPNMappings(pairs) on record: the keys it set and    *)
(* the cache before and after; again tells the second call of the pairs.   *)
lidStoreRecorded(pairs, again) ==
    LET res == storeLIDPNMappings(pairs, mappingCache, keys.lidMapping)
    IN /\ mappingCache' = res.cache
       /\ keys' = [keys EXCEPT !.lidMapping = Overlay(@, res.writes)]
       /\ relay' = [relay EXCEPT ![1].stored =
                      << [pairs |-> pairs,
                          again |-> again,
                          writes |-> res.writes,
                          kvBefore |-> keys.lidMapping,
                          cacheBefore |-> mappingCache,
                          cacheAfter |-> res.cache] >>]
       /\ UNCHANGED <<media, compatV6GroupSend, userDevicesCache, peerSessionsCache,
                      groupMetadataCache, encryptionMutex, skdmSent>>

lidStoreOnce ==
    /\ relay[1].stored = <<>>
    /\ \E pairs \in StoreCalls : lidStoreRecorded(pairs, FALSE)

lidStoreAgain ==
    /\ relay[1].stored # <<>>
    /\ ~relay[1].stored[1].again
    /\ lidStoreRecorded(relay[1].stored[1].pairs, TRUE)

StoreTwiceNext ==
    lidStoreOnce \/ lidStoreAgain \/ lidGetLIDForPN \/ lidGetPNForLID \/ lidCacheExpires

StoreTwiceSpec == LidInit /\ [][StoreTwiceNext]_vars

(* The second calls on record. *)
SecondStores ==
    { relay[r].stored[1] : r \in { q \in Relays : relay[q].stored # <<>> /\ relay[q].stored[1].again } }

(* C30: storeLIDPNMappings is idempotent: the second call with the same    *)
(* pairs sets no key of the keystore and leaves keystore and cache as they *)
(* were, whether the mapping is still in the cache or only in the keystore.*)
C30_Idempotent ==
    \A s \in SecondStores :
       /\ s.writes = <<>>
       /\ s.cacheAfter = s.cacheBefore

(* The keystore half of C30 alone: the second call sets no key. *)
C30_NoSecondSet ==
    \A s \in SecondStores : s.writes = <<>>

(* The valid pairs of a call as (pnUser, lidUser). *)
ValidPairs(pairs) ==
    { << (IF isLidUser(p.lid) THEN p.pn.user ELSE p.lid.user),
         (IF isLidUser(p.lid) THEN p.lid.user ELSE p.pn.user) >> :
        p \in { q \in Range(pairs) : \/ (isLidUser(q.lid) /\ isPnUser(q.pn))
                                     \/ (isPnUser(q.lid) /\ isLidUser(q.pn)) } }

(* The call pairs no phone-number user with two LIDs and no LID with two   *)
(* phone-number users.                                                     *)
OneToOnePairs(pairs) ==
    \A x, y \in ValidPairs(pairs) : (x[1] = y[1]) <=> (x[2] = y[2])

(* What holds of C30: when the pairs are one-to-one, the second call sets  *)
(* no key, and the cache either stays as it was or gains the entries       *)
(* re-read from the keystore (lines 46-50) for mappings that had expired   *)
(* from it.                                                                *)
C30_IdempotentForOneToOnePairs ==
    \A s \in SecondStores :
       OneToOnePairs(s.pairs) =>
          /\ s.writes = <<>>
          /\ \A k \in DOMAIN s.cacheBefore :
                k \in DOMAIN s.cacheAfter /\ s.cacheAfter[k] = s.cacheBefore[k]
          /\ \A k \in DOMAIN s.cacheAfter \ DOMAIN s.cacheBefore :
                \E x \in ValidPairs(s.pairs) :
                   /\ PnCacheKey(x[1]) \notin DOMAIN s.cacheBefore
                   /\ k \in {PnCacheKey(x[1]), LidCacheKey(x[2])}
          /\ (\A x \in ValidPairs(s.pairs) : PnCacheKey(x[1]) \in DOMAIN s.cacheBefore)
                => s.cacheAfter = s.cacheBefore

(* A second call with one-to-one pairs that found a mapping only in the    *)
(* keystore and put it back into the cache.                                *)
C30_RereadFromKeystore ==
    \E s \in SecondStores :
       /\ OneToOnePairs(s.pairs)
       /\ ValidPairs(s.pairs) # {}
       /\ s.writes = <<>>
       /\ s.cacheAfter # s.cacheBefore

(* The calls of storeLIDPNMappings on record. *)
RecordedStores == { relay[r].stored[1] : r \in { q \in Relays : relay[q].stored # <<>> } }

(* A pair of a LID user and a PN user, in either order. *)
LidWithPn(p) == {p.lid.server, p.pn.server} = {LidServer, S_WHATSAPP_NET}

(* The batch without its invalid pairs. *)
ValidOnly(pairs) == SelectSeqIn(pairs, { p \in Range(pairs) : LidWithPn(p) })

(* The phone-number users a call pairs with exactly one LID. *)
SingleLidPns(pairs) ==
    { x \in ValidPairs(pairs) : \A y \in ValidPairs(pairs) : y[1] = x[1] => y[2] = x[2] }

(* C31: an invalid pair (neither LID+PN nor PN+LID) is skipped and stores  *)
(* nothing: the call sets the keys and leaves the cache that the call      *)
(* without the invalid pairs would; and the valid pairs of the batch,      *)
(* before or after an invalid one, are stored: each phone-number user the  *)
(* batch gives one LID maps to it in the keystore and the cache afterwards.*)
C31_InvalidPairSkipped ==
    \A s \in RecordedStores :
       LET clean == storeLIDPNMappings(ValidOnly(s.pairs), s.cacheBefore, s.kvBefore)
           kvAfter == Overlay(s.kvBefore, s.writes)
       IN /\ s.writes = clean.writes
          /\ s.cacheAfter = clean.cache
          /\ \A x \in SingleLidPns(s.pairs) :
                /\ PnStoreKey(x[1]) \in DOMAIN kvAfter
                /\ kvAfter[PnStoreKey(x[1])] = x[2]
                /\ PnCacheKey(x[1]) \in DOMAIN s.cacheAfter
                /\ s.cacheAfter[PnCacheKey(x[1])] = x[2]

(* A call whose batch has an invalid pair before a valid one, and stores   *)
(* the valid one.                                                          *)
C31_Witness ==
    \E s \in RecordedStores :
       /\ Len(s.pairs) = 2
       /\ ~s.again
       /\ ~LidWithPn(s.pairs[1])
       /\ LidWithPn(s.pairs[2])
       /\ s.writes # <<>>

(* What getLIDForPN(pn) returns in the current state. *)
LidReturned(pn) == getLIDForPN(pn, mappingCache, keys.lidMapping).lid

(* C32: getLIDForPN returns, for any input with or without device suffix   *)
(* and any stored mapping, either nothing or the LID JID of the user       *)
(* without device suffix, and the same for every device of one input user. *)
C32_UserLevelLid ==
    \A pn \in LookupJids :
       /\ LidReturned(pn) # <<>> =>
             /\ isPnUser(pn)
             /\ LidReturned(pn)[1].server = LidServer
             /\ LidReturned(pn)[1].device = 0
             /\ LidReturned(pn)[1].user \in StoreLidUsers
       /\ \A other \in LookupJids :
             (other.user = pn.user /\ other.server = pn.server)
                => LidReturned(other) = LidReturned(pn)

(* A mapping is stored and the lookup of a PN with device suffix answers   *)
(* the LID of its user.                                                    *)
C32_Witness ==
    /\ PnStoreKey("a") \in DOMAIN keys.lidMapping
    /\ LidReturned(jidEncode("a", S_WHATSAPP_NET, 2))
          = << jidEncode(keys.lidMapping[PnStoreKey("a")], LidServer, 0) >>
    /\ PnCacheKey("a") \notin DOMAIN mappingCache

-----------------------------------------------------------------------------
(* progressiveAssertSessions (src/Socket/messages-send.ts 86-113) on its    *)
(* own: assertSessionsFn is any function that resolves or throws.           *)

(* Longest list of jids passed. *)
MaxAllJids == 4

(* Largest chunk passed. *)
MaxChunk == 3

ProgressiveJidPool == { peerPn, peerLid }

ProgressiveInputs == UNION { [1..n -> ProgressiveJidPool] : n \in 0..MaxAllJids }

(* allJids.slice(i, i + chunk), i counted from 0. *)
slice(allJids, i, chunk) ==
    [k \in 1..(IF i + chunk < Len(allJids) THEN chunk ELSE Len(allJids) - i) |-> allJids[i + k]]

(* The call of the function (lines 88-93): an empty list returns at once,  *)
(* any other enters the loop at i = 0.                                     *)
progressiveAssertSessions ==
    /\ relay[1].progressive = <<>>
    /\ \E allJids \in ProgressiveInputs, chunk \in 1..MaxChunk :
         relay' = [relay EXCEPT ![1].progressive =
                     << [allJids |-> allJids,
                         chunk |-> chunk,
                         i |-> 0,
                         calls |-> <<>>,
                         sleeps |-> 0,
                         pc |-> IF Len(allJids) = 0 THEN "returned" ELSE "loop"] >>]
    /\ UNCHANGED <<media, compatV6GroupSend, keys, userDevicesCache, peerSessionsCache,
                   mappingCache, groupMetadataCache, encryptionMutex, skdmSent>>

(* The end of one iteration (lines 98-106): a throw of assertSessionsFn is *)
(* caught and logged, the delay is awaited when a slice is left, i         *)
(* advances by chunk, and the loop test of line 93 decides.                *)
progressiveAfterBatch_Rethrows(p, batch, threw) ==
    IF threw THEN [p EXCEPT !.calls = Append(@, [batch |-> batch, threw |-> threw]),
                            !.pc = "threw"]
    ELSE [p EXCEPT !.calls = Append(@, [batch |-> batch, threw |-> threw]),
                   !.sleeps = IF p.i + p.chunk < Len(p.allJids) THEN @ + 1 ELSE @,
                   !.i = @ + p.chunk,
                   !.pc = IF p.i + p.chunk < Len(p.allJids) THEN "loop" ELSE "returned"]

progressiveAfterBatch(p, batch, threw) ==
    [p EXCEPT !.calls = Append(@, [batch |-> batch, threw |-> threw]),
              !.sleeps = IF p.i + p.chunk < Len(p.allJids) THEN @ + 1 ELSE @,
              !.i = @ + p.chunk,
              !.pc = IF p.i + p.chunk < Len(p.allJids) THEN "loop" ELSE "returned"]

(* One iteration of the loop: the slice is handed to assertSessionsFn,     *)
(* which resolves or throws.                                               *)
progressiveBatch ==
    /\ relay[1].progressive # <<>>
    /\ relay[1].progressive[1].pc = "loop"
    /\ \E threw \in BOOLEAN :
         LET p == relay[1].progressive[1]
         IN relay' = [relay EXCEPT ![1].progressive =
                        << progressiveAfterBatch(p, slice(p.allJids, p.i, p.chunk), threw) >>]
    /\ UNCHANGED <<media, compatV6GroupSend, keys, userDevicesCache, peerSessionsCache,
                   mappingCache, groupMetadataCache, encryptionMutex, skdmSent>>

ProgressiveNext == progressiveAssertSessions \/ progressiveBatch

ProgressiveSpec == LidInit /\ [][ProgressiveNext]_vars

(* The event loop runs every pending continuation. *)
ProgressiveFairSpec == ProgressiveSpec /\ WF_vars(ProgressiveNext)

(* The calls of progressiveAssertSessions on record. *)
ProgressiveCalls ==
    { relay[r].progressive[1] : r \in { q \in Relays : relay[q].progressive # <<>> } }

(* The slices handed to assertSessionsFn so far, in call order. *)
BatchesOf(p) == [k \in DOMAIN p.calls |-> p.calls[k].batch]

(* C40, while running: never a throw of the function itself; every slice   *)
(* handed over has between 1 and chunk jids; the slices in call order are a *)
(* prefix of allJids, also after a slice's call threw.                      *)
ProgressiveSafe ==
    \A p \in ProgressiveCalls :
       /\ p.pc \in {"loop", "returned"}
       /\ \A k \in DOMAIN p.calls :
             Len(p.calls[k].batch) >= 1 /\ Len(p.calls[k].batch) <= p.chunk
       /\ Len(Flatten(BatchesOf(p))) <= Len(p.allJids)
       /\ Flatten(BatchesOf(p)) = SubSeq(p.allJids, 1, Len(Flatten(BatchesOf(p))))
       /\ p.pc = "returned" => Flatten(BatchesOf(p)) = p.allJids
       /\ (p.pc = "returned" /\ p.allJids = <<>>) => p.calls = <<>>
       /\ \A k \in DOMAIN p.calls :
             k < Len(p.calls) => Len(p.calls[k].batch) = p.chunk

ProgressiveReturned ==
    \A p \in ProgressiveCalls : p.pc = "returned"

(* C40: progressiveAssertSessions(fn, allJids, chunk, delayMs) with        *)
(* chunk >= 1 calls fn on consecutive slices of at most chunk jids whose   *)
(* concatenation in call order is allJids, goes on after a slice's call    *)
(* threw, never throws itself, makes no call for an empty list, and always *)
(* terminates.                                                             *)
C40_ProgressiveSlices ==
    /\ []ProgressiveSafe
    /\ [](ProgressiveCalls # {} => <>ProgressiveReturned)

(* A call that returned after a slice's call threw and a later slice was   *)
(* handed over, the last slice shorter than chunk.                         *)
C40_Witness ==
    \E p \in ProgressiveCalls :
       /\ p.pc = "returned"
       /\ Len(p.calls) >= 2
       /\ p.calls[1].threw
       /\ Len(p.calls[Len(p.calls)].batch) < p.chunk

(* A group relay without participant that has asserted the sessions of its *)
(* sender-key recipients.                                                  *)
GroupAsserted(r) ==
    /\ isGroup(relay[r])
    /\ relay[r].participant = NoParticipant
    /\ relay[r].assertCalls # <<>>

(* C33: a group relay asserts the sessions of its SKDM recipients in       *)
(* consecutive chunks of at most groupAssertChunk jids.                    *)
C33_AssertedInChunks ==
    \A r \in Relays :
       GroupAsserted(r) =>
          /\ \A k \in DOMAIN relay[r].assertCalls :
                Len(relay[r].assertCalls[k]) <= groupAssertChunk
          /\ Flatten(relay[r].assertCalls) = senderKeyJids(relay[r].devices)

(* What holds in place of C33: the sessions of all SKDM recipients are     *)
(* asserted in one call, whatever their number.                            *)
C33_AssertedInOneCall ==
    \A r \in Relays :
       GroupAsserted(r) => relay[r].assertCalls = << senderKeyJids(relay[r].devices) >>

-----------------------------------------------------------------------------
(* refreshMediaConn (src/Socket/messages-send.ts 171-202).  A promise is    *)
(* "pending" while its media_conn query is in flight, "rejected" when the   *)
(* query failed, and else holds a MediaConnInfo that is "fresh" until its   *)
(* ttl has passed and "stale" after.                                        *)

MediaUnchanged ==
    UNCHANGED <<compatV6GroupSend, keys, userDevicesCache, peerSessionsCache,
                mappingCache, groupMetadataCache, encryptionMutex, relay, skdmSent>>

(* What `await mediaConn` yields for the promise awaited, once settled. *)
awaitedState(awaited) ==
    IF awaited = <<>> THEN "absent" ELSE media.promise[awaited[1]]

(* The test of line 174 on the value awaited. *)
needsRefresh(saw, forceGet) == saw = "absent" \/ forceGet \/ saw = "stale"

(* The call (line 172) up to its first await (line 173), which awaits the  *)
(* promise mediaConn holds at that moment.                                 *)
refreshMediaConn(c) ==
    /\ media.call[c].pc = "idle"
    /\ \E forceGet \in BOOLEAN :
         media' = [media EXCEPT !.call[c] =
                     [IdleCaller EXCEPT !.pc = "awaitMedia",
                                        !.forceGet = forceGet,
                                        !.awaited = media.conn]]
    /\ MediaUnchanged

(* The continuation of line 173 when the awaited promise rejected: the     *)
(* await throws and the call rejects.                                      *)
mediaAwaitThrows(c) ==
    /\ media.call[c].pc = "awaitMedia"
    /\ awaitedState(media.call[c].awaited) = "rejected"
    /\ media' = [media EXCEPT !.call[c].pc = "rejected", !.call[c].saw = "rejected"]
    /\ MediaUnchanged

(* The continuation of line 173 otherwise (lines 174-201): when the test   *)
(* holds, mediaConn is assigned a new promise, whose query is sent at      *)
(* once; the call returns the promise mediaConn holds now.                 *)
mediaAwaited(c) ==
    /\ media.call[c].pc = "awaitMedia"
    /\ awaitedState(media.call[c].awaited) \in {"absent", "fresh", "stale"}
    /\ LET saw == awaitedState(media.call[c].awaited)
           new == Len(media.promise) + 1
       IN IF needsRefresh(saw, media.call[c].forceGet)
          THEN media' = [media EXCEPT !.conn = <<new>>,
                                      !.promise = Append(@, "pending"),
                                      !.call[c].pc = "awaitResult",
                                      !.call[c].saw = saw,
                                      !.call[c].issued = <<new>>,
                                      !.call[c].returns = <<new>>]
          ELSE media' = [media EXCEPT !.call[c].pc = "awaitResult",
                                      !.call[c].saw = saw,
                                      !.call[c].returns = media.conn]
    /\ MediaUnchanged

(* The media_conn query of a promise is answered, or fails (lines 176-197). *)
mediaQueryDone(p) ==
    /\ media.promise[p] = "pending"
    /\ \E ok \in BOOLEAN :
         media' = [media EXCEPT !.promise[p] = IF ok THEN "fresh" ELSE "rejected"]
    /\ MediaUnchanged

(* The ttl of a MediaConnInfo passes. *)
mediaTtlPasses(p) ==
    /\ media.promise[p] = "fresh"
    /\ media' = [media EXCEPT !.promise[p] = "stale"]
    /\ MediaUnchanged

(* The promise a call returned settles: the caller has the MediaConnInfo   *)
(* of that promise, or the rejection.                                      *)
mediaReturned(c) ==
    /\ media.call[c].pc = "awaitResult"
    /\ media.promise[media.call[c].returns[1]] # "pending"
    /\ media' = [media EXCEPT
                   !.call[c].pc = IF media.promise[media.call[c].returns[1]] = "rejected"
                                  THEN "rejected" ELSE "resolved"]
    /\ MediaUnchanged

MediaNext ==
    \/ \E c \in Callers : refreshMediaConn(c)
    \/ \E c \in Callers : mediaAwaitThrows(c)
    \/ \E c \in Callers : mediaAwaited(c)
    \/ \E p \in DOMAIN media.promise : mediaQueryDone(p)
    \/ \E p \in DOMAIN media.promise : mediaTtlPasses(p)
    \/ \E c \in Callers : mediaReturned(c)

MediaSpec == LidInit /\ [][MediaNext]_vars

(* The call of c is past its first await. *)
PastAwait(c) == media.call[c].pc \in {"awaitResult", "resolved", "rejected"}

(* Two calls without forceGet that overlapped while the media connection   *)
(* was absent or stale: both awaited the same mediaConn and both found it  *)
(* absent or stale.                                                        *)
OverlappedOnStale(c, d) ==
    /\ c # d
    /\ PastAwait(c) /\ PastAwait(d)
    /\ ~media.call[c].forceGet /\ ~media.call[d].forceGet
    /\ media.call[c].awaited = media.call[d].awaited
    /\ media.call[c].saw \in {"absent", "stale"}
    /\ media.call[d].saw \in {"absent", "stale"}

(* C34: concurrent refreshMediaConn calls are coalesced: of calls that     *)
(* overlap while the media connection is absent or stale at most one       *)
(* issues a media_conn query, and all of them are given the same           *)
(* MediaConnInfo.                                                          *)
C34_Coalesced ==
    \A c, d \in Callers :
       OverlappedOnStale(c, d) =>
          /\ ~(media.call[c].issued # <<>> /\ media.call[d].issued # <<>>)
          /\ media.call[c].returns = media.call[d].returns

(* What holds of C34: a call without forceGet that awaited a promise and   *)
(* found its MediaConnInfo fresh, the query of another call included,      *)
(* issues no query.                                                        *)
C34_CoalescedOnFresh ==
    \A c \in Callers :
       (PastAwait(c) /\ ~media.call[c].forceGet /\ media.call[c].saw = "fresh")
          => media.call[c].issued = <<>>

(* C38: a failed media_conn query does not poison refreshMediaConn: a call *)
(* made after the query of the stored promise rejected issues a new query. *)
C38_NotPoisoned ==
    \A c \in Callers :
       (media.call[c].pc # "awaitMedia" /\ media.call[c].saw = "rejected")
          => media.call[c].issued # <<>>

(* What holds in place of C38: a call that awaited a rejected promise      *)
(* rejects at that await, leaving mediaConn and the promises as they are.  *)
C38_AwaitOfRejectedRejects ==
    [][\A c \in Callers :
          (/\ media.call[c].pc = "awaitMedia"
           /\ awaitedState(media.call[c].awaited) = "rejected"
           /\ media'.call[c] # media.call[c])
          => /\ media'.call[c].pc = "rejected"
             /\ media'.conn = media.conn
             /\ media'.promise = media.promise]_vars

(* What relay r had completed when it invoked sendNode: no encryption of   *)
(* its fan-out is waiting or running, the retry-resend encryption of a     *)
(* group returned, and the sender-key map of a group send is written.      *)
EncryptionsCompleted(rec) ==
    /\ \A i \in DOMAIN rec.enc : rec.enc[i] \notin {"wait", "run"}
    /\ (rec.jid \in SenderKeyGroups /\ rec.participant # NoParticipant) => rec.retryEnc \in {"msg", "pkmsg"}

SenderKeyMemoryWritten(rec) ==
    (rec.jid \in SenderKeyGroups /\ rec.participant = NoParticipant)
        => /\ rec.jid \in DOMAIN rec.tx.senderKeyMemory
           /\ rec.tx.senderKeyMemory[rec.jid] = rec.senderKeyMap

(* C35: every relayMessage call that resolves has invoked sendNode exactly *)
(* once, after all encryptions and the sender-key-memory write of that     *)
(* call completed; a call that fails at an earlier step (metadata fetch,   *)
(* device resolution, session assertion, encryption) invokes sendNode zero *)
(* times.                                                                  *)
C35_SendNodeOnce ==
    [][\A r \in Relays :
         /\ relay'[r].sendNodeCalls <= 1
         /\ relay'[r].pc = "done" =>
               relay'[r].sendNodeCalls = 1 /\ relay[r].pc \in {"sendNode", "done"}
         /\ relay'[r].sendNodeCalls > relay[r].sendNodeCalls =>
               EncryptionsCompleted(relay'[r]) /\ SenderKeyMemoryWritten(relay'[r])
         /\ (relay'[r].pc = "failed" /\ relay[r].pc \notin {"sendNode", "failed"}) =>
               relay'[r].sendNodeCalls = 0]_vars

C35_Witness ==
    \E r, q \in Relays :
        /\ relay[r].pc = "done" /\ relay[r].jid \in SenderKeyGroups
        /\ relay[r].participant = NoParticipant /\ relay[r].enc # <<>>
        /\ relay[r].sendNodeCalls = 1
        /\ relay[q].pc = "failed" /\ relay[q].sendNodeCalls = 0
(* The Signal addresses some keystore session exists for: committed, or    *)
(* written inside the transaction of a call that is still running.         *)
SessionHeld ==
    DOMAIN keys.session
    \cup UNION { DOMAIN relay[r].tx.session :
                   r \in { q \in Relays : relay[q].pc \notin {"idle", "done", "failed"} } }

(* C36: the peer-sessions presence cache is sound: whenever it holds true  *)
(* for a Signal address, the keystore holds a session for that address     *)
(* (here even counting the sessions a running call has written inside its  *)
(* transaction).                                                           *)
C36_CacheSound ==
    \A a \in DOMAIN peerSessionsCache : peerSessionsCache[a] => a \in SessionHeld

(* Every address a call freshly installs a session for, PN or LID, is      *)
(* cached as true by the step that installs it.                            *)
C36_InstalledIsCached ==
    [][\A r \in Relays :
         \A a \in DOMAIN relay'[r].tx.session \ DOMAIN relay[r].tx.session :
             a \in DOMAIN peerSessionsCache' /\ peerSessionsCache'[a]]_vars

(* While every call that asserted sessions is running or resolved, the     *)
(* cache holds true only for addresses with a session.                     *)
C36_SoundWithoutAbort ==
    (\A r \in Relays : relay[r].pc # "failed") => C36_CacheSound
(* Two non-retry relays to the same sender-key group that both resolved,  *)
(* and the devices either of them marked in its sender-key map.            *)
BothSucceeded(r, q) ==
    /\ r # q
    /\ relay[r].pc = "done" /\ relay[q].pc = "done"
    /\ relay[r].jid \in SenderKeyGroups /\ relay[q].jid = relay[r].jid
    /\ relay[r].participant = NoParticipant /\ relay[q].participant = NoParticipant

MarkedByEither(r, q) == relay[r].senderKeyMap \cup relay[q].senderKeyMap

(* C37: if two non-retry relayMessage calls to the same group run          *)
(* concurrently and both succeed, sender-key-memory[groupJid] afterwards   *)
(* contains every device marked by either call: the read / modify / write  *)
(* of the sender-key map loses no update under any interleaving.           *)
C37_NoLostUpdate ==
    \A r, q \in Relays :
        BothSucceeded(r, q) =>
            /\ relay[r].jid \in DOMAIN keys.senderKeyMemory
            /\ MarkedByEither(r, q) \subseteq keys.senderKeyMemory[relay[r].jid]
(* The keystore's lid-mapping entry a cache entry stands for: pn:<p> for   *)
(* the forward key p, lid:<l> for the reverse key l_reverse.               *)
KeystoreKeyOf(k) == IF k[1] = "pn" THEN <<k[2], "">> ELSE <<k[2], "_reverse">>

(* C39: the LID mapping cache never disagrees with the keystore: in every  *)
(* reachable state a cache entry pn:<p> = l implies keystore               *)
(* lid-mapping[p] = l and a cache entry lid:<l> = p implies keystore       *)
(* lid-mapping[l_reverse] = p, also after a mapping is superseded by a     *)
(* different LID and after a lid-mapping transaction fails part-way.       *)
C39_CacheAgreesWithKeystore ==
    \A k \in DOMAIN mappingCache :
        /\ KeystoreKeyOf(k) \in DOMAIN keys.lidMapping
        /\ keys.lidMapping[KeystoreKeyOf(k)] = mappingCache[k]
(* The forward entries of the cache, pn:<p>, agree with the keystore. *)
C39_ForwardEntriesAgree ==
    \A k \in { c \in DOMAIN mappingCache : c[1] = "pn" } :
        /\ KeystoreKeyOf(k) \in DOMAIN keys.lidMapping
        /\ keys.lidMapping[KeystoreKeyOf(k)] = mappingCache[k]
=============================================================================
